---- MODULE Spec2Model ----
(***************************************************************************)
(* A model of the SmartVoyage travel platform.                             *)
(*                                                                         *)
(* Part I  : the Order Tool Backend (src/src/mcp_servers/order_mcp.py on   *)
(*           top of src/src/mcp_servers/base_service.py): create_order and *)
(*           cancel_order, statement by statement, against the tables      *)
(*           train_tickets / orders of the relational store.               *)
(* Part II : handle_task of the Weather, Ticket and Order Agents           *)
(*           (src/src/agents/*.py).                                        *)
(* Part III: a turn of the front ends, process_input of the CLI            *)
(*           (src/src/main.py) and process_user_input of the web page      *)
(*           (src/src/app.py).                                             *)
(* Part IV : the health-check script (src/scripts/health_check.py), the    *)
(*           order numbers, the validators (src/src/utils/validators.py)   *)
(*           and execute_query of base_service.py.                         *)
(*                                                                         *)
(* Texts are Chinese in the source; TLA+ strings are ASCII, so every text  *)
(* is a token whose comment gives the source text.                         *)
(***************************************************************************)
EXTENDS Integers, Sequences, FiniteSets, TLC

(***************************************************************************)
(* Bounds of the model.                                                    *)
(***************************************************************************)
\* largest remaining_seats a ticket row starts with
MaxSeats == 2
\* most requests made to the logger factory in a run
MaxRequests == 4
\* largest quantity a caller asks for
MaxQuantity == 2
\* order numbers generate_order_no can produce (the real space is
\* timestamp x 16^6; a small one makes collisions on the unique key happen)
MaxOrderNo == 2

(***************************************************************************)
(* PART I - Order Tool Backend                                             *)
(***************************************************************************)

\* concurrent callers of the Order Tool Backend (tool invocations in flight)
Callers == {"c1", "c2"}

\* order_mcp.py:44-48, 78-82: table_map; any other ticket_type has no table
table_map(ticket_type) ==
    CASE ticket_type = "train"   -> "train_tickets"
      [] ticket_type = "flight"  -> "flight_tickets"
      [] ticket_type = "concert" -> "concert_tickets"
      [] OTHER                   -> "none"

\* the ticket rows the store holds: <<table, id>>
TicketRows == {<<"train_tickets", 1>>}

\* what callers pass as ticket_type / ticket_id / quantity / order_no
TicketTypeInputs == {"train", "bus"}
TicketIdInputs == {1, 2}
Quantities == 1..MaxQuantity
OrderNos == 1..MaxOrderNo
\* price of a ticket row (in cents, so unit_price * quantity is exact)
TicketPrices == {5}

\* orders.status column values (order_mcp.py list_orders docstring)
OrderStatuses == {"pending", "paid", "cancelled", "completed"}

\* outcome of handing one statement to the database service:
\*   "ok"    the statement executed,
\*   "error" the driver raised MySQLError inside execute_*, which returns
\*           the error envelope,
\*   "raise" _ensure_connection could not reconnect: MySQLError leaves
\*           execute_* (it is called before the try block)
DbOutcomes == {"ok", "error", "raise"}

VARIABLES
    tickets,       \* [TicketRows -> [remaining_seats, price]]   the ticket tables
    orders,        \* set of rows of table orders (unique key order_no)
    pc,            \* [Callers -> position of the call in flight, or "idle"]
    frame,         \* [Callers -> arguments and locals of the call in flight]
    ret,           \* history: the call that returned last, with what it returned
    faulted,       \* history: a statement of the call in flight hit a database fault
    begin,         \* history: the tables when the call in flight began
    initialSeats,  \* history: remaining_seats of every ticket row at the start
    library_names, \* the names python_a2a supplies among those the repository lacks
    at,            \* position of the Agent's handle_task, "idle" or "done"
    cur,           \* the Agent, the task and the locals of handle_task
    resp,          \* what handle_task gave back: a TaskStatus or an exception
    calls,         \* LLM, peer-Agent and tool calls made for the task
    ui,            \* the front end of the session: "cli" or "web"
    messages,      \* the front end's list of messages
    conversation_history,  \* the front end's transcript, line by line
    turn,          \* position and locals of the turn being processed
    run_input,     \* the arguments a function or script is run with
    run_output     \* what it gave back, "none" before it ran

backendVars == <<tickets, orders, pc, frame, ret, faulted, begin, initialSeats>>
agentVars == <<library_names, at, cur, resp, calls>>
frontVars == <<ui, messages, conversation_history, turn>>
utilVars == <<run_input, run_output>>

\* the variables outside the backend, outside the Agents, ..
exceptBackend == <<agentVars, frontVars, utilVars>>
exceptAgent == <<backendVars, frontVars, utilVars>>
exceptFront == <<backendVars, agentVars, utilVars>>
exceptUtil == <<backendVars, agentVars, frontVars>>

NoFrame ==
    [op |-> "none", ticket_type |-> "", ticket_id |-> 0, quantity |-> 0,
     order_no |-> 0, remaining |-> 0, unit_price |-> 0, total_price |-> 0]

\* message tokens:
\*   "ticket_not_found"     "票务不存在"
\*   "insufficient_stock"   "余票不足，当前仅剩 N 张"   (n = N)
\*   "stock_deduct_failed"  "库存扣减失败，请重试"
\*   "order_create_failed"  "订单创建失败"
\*   "order_not_found"      "订单不存在"
\*   "only_pending"         "只能取消待支付的订单"
\*   "order_cancelled"      "订单已取消"
\*   "order_created"        the success payload with the order record
\*   "exception_text"       str(e) of a caught exception
ErrorResult(message, n) == [status |-> "error", message |-> message, n |-> n]
SuccessResult(message) == [status |-> "success", message |-> message, n |-> 0]
\* the exception left the tool function: no payload
RaisedResult == [status |-> "raised", message |-> "MySQLError", n |-> 0]

\* ret before any call returned
NoCall ==
    [op |-> "none", status |-> "none", message |-> "", n |-> 0,
     order_no |-> 0, remaining |-> 0, follows_create |-> FALSE]

\* remaining_seats of every ticket row
Seats(t) == [k \in DOMAIN t |-> t[k].remaining_seats]

\* what history keeps of a returned call: its operation and its answer; of a
\* create_order that succeeded, the order number it returned and the
\* remaining_seats its ticket had when the call began; of a cancel_order, the
\* order number it was given and whether the call before it was the
\* create_order that returned this order number
Returned(f, res) ==
    LET created == f.op = "create_order" /\ res.status = "success"
        k == <<table_map(f.ticket_type), f.ticket_id>>
    IN [op |-> f.op, status |-> res.status, message |-> res.message, n |-> res.n,
        order_no |-> IF created \/ f.op = "cancel_order" THEN f.order_no ELSE 0,
        remaining |-> IF created THEN begin.seats[k] ELSE 0,
        follows_create |-> /\ f.op = "cancel_order"
                           /\ ret.op = "create_order"
                           /\ ret.order_no = f.order_no]

\* when the next call begins, history keeps the returned call only if it was
\* a create_order that succeeded
Previous(r) == IF r.op = "create_order" /\ r.status = "success" THEN r ELSE NoCall

OrderRow(order_no, ticket_type, ticket_id, quantity, unit_price, total_price, status) ==
    [order_no |-> order_no, ticket_type |-> ticket_type, ticket_id |-> ticket_id,
     quantity |-> quantity, unit_price |-> unit_price, total_price |-> total_price,
     status |-> status]

\* rows of orders with the given order_no (SELECT * FROM orders WHERE order_no = ..)
OrdersWithNo(order_no) == {o \in orders : o.order_no = order_no}

\* the orders table before any call: empty, or one row left by earlier use
SeedOrders(price) ==
    {{}} \cup {{OrderRow(1, "train", 1, 1, price, price, s)} : s \in OrderStatuses}

\* the backend before any call, every ticket row with r seats at price p
BackendAt(r, p, rows) ==
    /\ tickets = [k \in TicketRows |-> [remaining_seats |-> r, price |-> p]]
    /\ orders = rows
    /\ initialSeats = [k \in TicketRows |-> tickets[k].remaining_seats]
    /\ pc = [c \in Callers |-> "idle"]
    /\ frame = [c \in Callers |-> NoFrame]
    /\ ret = NoCall
    /\ faulted = FALSE
    /\ begin = [seats |-> Seats(tickets), orders |-> orders]

BackendInit(seeds) ==
    \E r \in 0..MaxSeats, p \in TicketPrices :
        \E rows \in (IF seeds THEN SeedOrders(p) ELSE {{}}) : BackendAt(r, p, rows)

\* cap on remaining_seats, so that restores and negative quantities stay finite
SeatCap == MaxSeats + 1

\* the call of caller c returns res (or raises, res = RaisedResult); bad says
\* whether its last statement hit a database fault. h: whether history is kept.
Return(c, res, bad, h) ==
    /\ pc' = [pc EXCEPT ![c] = "idle"]
    /\ frame' = [frame EXCEPT ![c] = NoFrame]
    /\ faulted' = IF h THEN faulted \/ bad ELSE faulted
    /\ ret' = IF h THEN Returned(frame[c], res) ELSE ret
    /\ begin' = IF h THEN [seats |-> Seats(tickets'), orders |-> orders'] ELSE begin
    /\ UNCHANGED exceptBackend

\* the call of caller c goes on at position next, with the locals f
Goto(c, next, f, bad, h) ==
    /\ pc' = [pc EXCEPT ![c] = next]
    /\ frame' = [frame EXCEPT ![c] = f]
    /\ faulted' = IF h THEN faulted \/ bad ELSE faulted
    /\ UNCHANGED <<ret, begin>>
    /\ UNCHANGED exceptBackend

\* order_mcp.py:33-64 get_ticket_info: the row, or None when ticket_type has
\* no table, the SELECT returned nothing or the query envelope is an error
get_ticket_info(ticket_type, ticket_id, outcome) ==
    LET k == <<table_map(ticket_type), ticket_id>>
    IN IF table_map(ticket_type) = "none" \/ outcome # "ok" \/ k \notin DOMAIN tickets
       THEN [found |-> FALSE, remaining_seats |-> 0, price |-> 0]
       ELSE [found |-> TRUE, remaining_seats |-> tickets[k].remaining_seats,
             price |-> tickets[k].price]

\* variant of InsufficientStock: the stock check left out
InsufficientStockUnchecked(remaining, quantity) == FALSE

\* order_mcp.py:127 the stock check: not enough seats for the quantity
InsufficientStock(remaining, quantity) == remaining < quantity

\* variant of DecrementGuard: the UPDATE without its condition on the stock
DecrementGuardDropped(remaining_seats, quantity) == TRUE

\* the WHERE clause of order_mcp.py:91: remaining_seats >= quantity
DecrementGuard(remaining_seats, quantity) == remaining_seats >= quantity

\* order_mcp.py:66-95 update_remaining_seats, as one UPDATE statement:
\* the tickets table afterwards and whether affected_rows > 0.
\* found_rows: whether the driver counts a matched but unchanged row
\* (quantity = 0) in rowcount; it depends on the connection's client flags.
update_remaining_seats(ticket_type, ticket_id, quantity, outcome, found_rows) ==
    LET k == <<table_map(ticket_type), ticket_id>>
        matched == /\ table_map(ticket_type) # "none"
                   /\ outcome = "ok"
                   /\ k \in DOMAIN tickets
                   /\ DecrementGuard(tickets[k].remaining_seats, quantity)
    IN [tickets |-> IF matched
                    THEN [tickets EXCEPT ![k].remaining_seats = @ - quantity]
                    ELSE tickets,
        updated |-> matched /\ (quantity # 0 \/ found_rows)]

\* variant of TotalPrice: the price of one ticket, whatever the quantity
TotalPriceOfOne(unit_price, quantity) == unit_price

\* order_mcp.py:132 total_price = unit_price * quantity
TotalPrice(unit_price, quantity) == unit_price * quantity

\* order_mcp.py:152 the status of the row create_order inserts
NewOrderStatus == "pending"

\* order_mcp.py:199 the status cancel_order writes
CancelledStatus == "cancelled"

\* variant of Cancellable: cancel_order without its check of the status
CancellableAlways(status) == TRUE

\* order_mcp.py:195 cancel_order goes on only for an order in this status
Cancellable(status) == status = "pending"

\* order_mcp.py:175 the quantity of the compensating update
CompensateQuantity(quantity) == 0 - quantity

\* variant of RestoreQuantity: the sign of the quantity not turned
RestoreQuantitySameSign(quantity) == quantity

\* order_mcp.py:206 the quantity of cancel_order's restoring update
RestoreQuantity(quantity) == 0 - quantity

(* ---------------- create_order, order_mcp.py:97-176 ------------------- *)

\* the tool is invoked: order_mcp.py:220-251
CreateOrderBegin(c, ticket_type, ticket_id, quantity, h) ==
    /\ pc[c] = "idle"
    /\ pc' = [pc EXCEPT ![c] = "co_get"]
    /\ frame' = [frame EXCEPT ![c] =
                   [NoFrame EXCEPT !.op = "create_order", !.ticket_type = ticket_type,
                                   !.ticket_id = ticket_id, !.quantity = quantity]]
    /\ faulted' = IF h THEN FALSE ELSE faulted
    /\ ret' = IF h THEN Previous(ret) ELSE ret
    /\ UNCHANGED <<tickets, orders, begin, initialSeats>>
    /\ UNCHANGED exceptBackend

\* steps 1-4, order_mcp.py:120-135: read the ticket, check the stock,
\* compute the price, generate the order number
CreateOrderGetTicket(c, h) ==
    /\ UNCHANGED <<tickets, orders, initialSeats>>
    /\ pc[c] = "co_get"
    /\ \E outcome \in DbOutcomes, no \in OrderNos :
         LET f == frame[c]
             hasTable == table_map(f.ticket_type) # "none"
             bad == hasTable /\ outcome # "ok"
             ticket == get_ticket_info(f.ticket_type, f.ticket_id, outcome)
             remaining == ticket.remaining_seats
         IN IF hasTable /\ outcome = "raise"
            THEN Return(c, RaisedResult, bad, h)
            ELSE IF ~ticket.found
            THEN Return(c, ErrorResult("ticket_not_found", 0), bad, h)
            ELSE IF InsufficientStock(remaining, f.quantity)
            THEN Return(c, ErrorResult("insufficient_stock", remaining), bad, h)
            ELSE Goto(c, "co_dec",
                      [f EXCEPT !.remaining = remaining,
                                !.unit_price = ticket.price,
                                !.total_price = TotalPrice(ticket.price, f.quantity),
                                !.order_no = no],
                      bad, h)

\* step 5, order_mcp.py:137-139: the conditional decrement
CreateOrderDecrement(c, h) ==
    /\ UNCHANGED <<orders, initialSeats>>
    /\ pc[c] = "co_dec"
    /\ \E outcome \in DbOutcomes, found_rows \in BOOLEAN :
         LET f == frame[c]
             u == update_remaining_seats(f.ticket_type, f.ticket_id, f.quantity,
                                         outcome, found_rows)
         IN /\ \A k \in DOMAIN u.tickets : u.tickets[k].remaining_seats <= SeatCap
            /\ tickets' = u.tickets
            /\ IF outcome = "raise"
               THEN Return(c, RaisedResult, TRUE, h)
               ELSE IF ~u.updated
               THEN Return(c, ErrorResult("stock_deduct_failed", 0), outcome # "ok", h)
               ELSE Goto(c, "co_ins", f, FALSE, h)

\* step 6, order_mcp.py:141-172: INSERT INTO orders; a row with the same
\* order_no violates the unique key, which the driver reports as an error
CreateOrderInsert(c, h) ==
    /\ UNCHANGED <<tickets, initialSeats>>
    /\ pc[c] = "co_ins"
    /\ \E outcome \in DbOutcomes :
         LET f == frame[c]
             inserted == outcome = "ok" /\ OrdersWithNo(f.order_no) = {}
         IN /\ orders' = IF inserted
                         THEN orders \cup {OrderRow(f.order_no, f.ticket_type, f.ticket_id,
                                                    f.quantity, f.unit_price, f.total_price,
                                                    NewOrderStatus)}
                         ELSE orders
            /\ IF outcome = "raise"
               THEN Return(c, RaisedResult, TRUE, h)
               ELSE IF inserted
               THEN Return(c, SuccessResult("order_created"), FALSE, h)
               ELSE Goto(c, "co_comp", f, FALSE, h)

\* order_mcp.py:173-176: the insert failed; give the stock back (the result
\* of update_remaining_seats is not looked at) and answer with the error
CreateOrderCompensate(c, h) ==
    /\ UNCHANGED <<orders, initialSeats>>
    /\ pc[c] = "co_comp"
    /\ \E outcome \in DbOutcomes, found_rows \in BOOLEAN :
         LET f == frame[c]
             u == update_remaining_seats(f.ticket_type, f.ticket_id,
                                         CompensateQuantity(f.quantity),
                                         outcome, found_rows)
         IN /\ \A k \in DOMAIN u.tickets : u.tickets[k].remaining_seats <= SeatCap
            /\ tickets' = u.tickets
            /\ IF outcome = "raise"
               THEN Return(c, RaisedResult, TRUE, h)
               ELSE Return(c, ErrorResult("order_create_failed", 0), outcome # "ok", h)

(* ---------------- cancel_order, order_mcp.py:183-213 ------------------ *)

\* the tool is invoked: order_mcp.py:268-280
CancelOrderBegin(c, order_no, h) ==
    /\ pc[c] = "idle"
    /\ pc' = [pc EXCEPT ![c] = "ca_get"]
    /\ frame' = [frame EXCEPT ![c] =
                   [NoFrame EXCEPT !.op = "cancel_order", !.order_no = order_no]]
    /\ faulted' = IF h THEN FALSE ELSE faulted
    /\ ret' = IF h THEN Previous(ret) ELSE ret
    /\ UNCHANGED <<tickets, orders, begin, initialSeats>>
    /\ UNCHANGED exceptBackend

\* step 1, order_mcp.py:185-196: read the order (the query itself is outside
\* the try block) and check its status
CancelOrderGetOrder(c, h) ==
    /\ UNCHANGED <<tickets, orders, initialSeats>>
    /\ pc[c] = "ca_get"
    /\ \E outcome \in DbOutcomes :
         LET f == frame[c]
             bad == outcome # "ok"
             rows == IF outcome = "ok" THEN OrdersWithNo(f.order_no) ELSE {}
         IN IF outcome = "raise"
            THEN Return(c, RaisedResult, bad, h)
            ELSE IF rows = {}
            THEN Return(c, ErrorResult("order_not_found", 0), bad, h)
            ELSE LET order == CHOOSE o \in rows : TRUE
                 IN IF ~Cancellable(order.status)
                    THEN Return(c, ErrorResult("only_pending", 0), bad, h)
                    ELSE Goto(c, "ca_upd",
                              [f EXCEPT !.ticket_type = order.ticket_type,
                                        !.ticket_id = order.ticket_id,
                                        !.quantity = order.quantity],
                              bad, h)

\* variant of SetCancelled: the UPDATE without its WHERE clause
SetCancelledEverywhere(order_no) == {[o EXCEPT !.status = CancelledStatus] : o \in orders}

\* order_mcp.py:199 UPDATE orders SET status = 'cancelled' WHERE order_no = ..
SetCancelled(order_no) ==
    {IF o.order_no = order_no THEN [o EXCEPT !.status = CancelledStatus] ELSE o : o \in orders}

\* step 2, order_mcp.py:198-200: the status update; its result is not looked
\* at, an exception is caught at order_mcp.py:211
CancelOrderUpdateStatus(c, h) ==
    /\ UNCHANGED <<tickets, initialSeats>>
    /\ pc[c] = "ca_upd"
    /\ \E outcome \in DbOutcomes :
         /\ orders' = IF outcome = "ok" THEN SetCancelled(frame[c].order_no) ELSE orders
         /\ IF outcome = "raise"
            THEN Return(c, ErrorResult("exception_text", 0), TRUE, h)
            ELSE Goto(c, "ca_restore", frame[c], outcome # "ok", h)

\* step 3, order_mcp.py:202-209: give the stock back (result not looked at)
\* and answer success
CancelOrderRestore(c, h) ==
    /\ UNCHANGED <<orders, initialSeats>>
    /\ pc[c] = "ca_restore"
    /\ \E outcome \in DbOutcomes, found_rows \in BOOLEAN :
         LET f == frame[c]
             u == update_remaining_seats(f.ticket_type, f.ticket_id,
                                         RestoreQuantity(f.quantity),
                                         outcome, found_rows)
         IN /\ \A k \in DOMAIN u.tickets : u.tickets[k].remaining_seats <= SeatCap
            /\ tickets' = u.tickets
            /\ IF outcome = "raise"
               THEN Return(c, ErrorResult("exception_text", 0), TRUE, h)
               ELSE Return(c, SuccessResult("order_cancelled"), outcome # "ok", h)

(***************************************************************************)
(* PART II - handle_task of the Weather, Ticket and Order Agents           *)
(***************************************************************************)

Agents == {"weather", "ticket", "order"}

\* a user text that is not empty
UserText == "q"

\* an item of a list content: an object with attribute text ("attr"), a dict
\* with key "text" ("dict"), or a value with neither ("plain")
ContentItems ==
    {[kind |-> "attr", text |-> UserText], [kind |-> "attr", text |-> ""],
     [kind |-> "dict", text |-> UserText], [kind |-> "plain", text |-> ""]}

\* longest list content
MaxItems == 2

ContentLists == UNION {[1..n -> ContentItems] : n \in 0..MaxItems}

\* incoming tasks, by what extract_user_input looks at:
\*   message: "absent" (no attribute, or falsy), "string", "dict" (no
\*            attribute content, not a str), "object" (has attribute content)
\*   content: of an object message: "string", "list", "other"
NoTaskInput == [message |-> "absent", content |-> "other", text |-> "", items |-> <<>>]

TaskInputs ==
    {NoTaskInput}
    \cup {[NoTaskInput EXCEPT !.message = "string", !.text = t] : t \in {"", UserText}}
    \cup {[NoTaskInput EXCEPT !.message = "dict", !.text = UserText]}
    \cup {[NoTaskInput EXCEPT !.message = "object", !.content = "string", !.text = t] :
            t \in {"", UserText}}
    \cup {[NoTaskInput EXCEPT !.message = "object", !.content = "list", !.items = l] :
            l \in ContentLists}
    \cup {[NoTaskInput EXCEPT !.message = "object", !.content = "other", !.text = UserText]}

\* base_agent.py:77-81: the text of the first item that has a text
RECURSIVE FirstText(_)
FirstText(items) ==
    IF items = <<>> THEN ""
    ELSE IF Head(items).kind \in {"attr", "dict"} THEN Head(items).text
    ELSE FirstText(Tail(items))

\* base_agent.py:63-86
extract_user_input(task) ==
    CASE task.message = "object" /\ task.content = "list"   -> FirstText(task.items)
      [] task.message = "object" /\ task.content = "string" -> task.text
      [] task.message = "string"                            -> task.text
      [] OTHER                                              -> ""

\* the attributes that the classes of the repository give an Agent:
\* base_agent.py:53-146 (BaseAgent) and 156 (MCPClientMixin)
BaseAgentAttributes ==
    {"current_date", "current_datetime", "extract_user_input", "create_response",
     "success_response", "error_response", "input_required_response",
     "handle_task", "get_welcome_message", "call_mcp_tool"}

\* the name each Agent calls to build a response of the given kind:
\* ticket_agent.py:286-323, weather_agent.py:272-311, order_agent.py:308-413
ResponseHelper(agent, kind) ==
    IF agent = "ticket"
    THEN CASE kind = "completed"      -> "success_response"
           [] kind = "failed"         -> "error_response"
           [] kind = "input_required" -> "input_required_response"
    ELSE CASE kind = "completed"      -> "create_success_response"
           [] kind = "failed"         -> "create_error_response"
           [] kind = "input_required" -> "create_input_required_response"

\* the name each Agent reads the current date with:
\* ticket_agent.py:164, weather_agent.py:123, order_agent.py:205
DateHelper(agent) == IF agent = "ticket" THEN "current_date" ELSE "get_current_date"

\* texts of a response: form is the fixed part, detail the part filled in
\*   "welcome"          get_welcome_message() of the Agent in detail
\*   "llm_message"      the message of the LLM's follow-up JSON
\*   "process_failed"   "处理失败: <exception>"
\*   "not_understood"   the Agent's text for an LLM output it cannot use
\*   "cannot_handle"    "无法处理您的请求，请重试。"
\*   "need_contact"     "请提供联系人姓名和手机号码，例如：..."
\*   "query_failed"     "查询失败: .." / "查询余票失败: .."
\*   "formatted"        the formatted query result
\*   "no_tickets"       "😔 <content> 请调整您的出行计划 .."
\*   "ask_ticket_id"    "查询到以下票务信息 .. 请提供您要预订的票务ID"
\*   "choose_ticket_id" "查询到多个票务选项 .. 请指定您要预订的票务ID"
\*   "booking_success"  "✅ 订票成功！" with the order number in detail
\*   "booking_failure"  "❌ 订票失败: <message>" with the message in detail
\*   "handler_error"    "处理..请求时发生错误: <exception>"
Text(form, detail) == [form |-> form, detail |-> detail]

NoText == Text("", "")

\* the names the Agents use that no class of the repository defines:
\* weather_agent.py:123, 272-311 and order_agent.py:205, 308-413
ForeignNames ==
    {"get_current_date", "create_success_response", "create_error_response",
     "create_input_required_response"}

\* whether the attribute name is found on an Agent object: the classes of
\* the repository define it, or the base class A2AServer of the package
\* python_a2a (not part of the repository) does; a name that is not found
\* raises AttributeError
Resolves(name) == name \in BaseAgentAttributes \/ name \in library_names

NoResponse == [outcome |-> "none", state |-> "", text |-> NoText]
\* handle_task returned a TaskStatus
ReturnedStatus(state, text) == [outcome |-> "returned", state |-> state, text |-> text]
\* an exception left handle_task
RaisedOut == [outcome |-> "raised", state |-> "", text |-> NoText]

NoCalls == [llm |-> 0, peer |-> 0, mcp |-> 0]

NoReply == [status |-> "none", data |-> "", message |-> ""]

\* no intent parsed (yet)
NoIntent == [kind |-> "none", contact |-> "", ticket_id |-> 0, ticket_type |-> "", quantity |-> 0]

\* no answer of the Ticket Agent (yet)
NoPeerResult == [status |-> "none", content |-> [kind |-> "none", apology |-> FALSE, ids |-> <<>>]]

\* no create_order call made (yet)
NoOrderData == [ticket_type |-> "", ticket_id |-> 0, quantity |-> 0, contact |-> ""]

NoHandling ==
    [agent |-> "none", task |-> NoTaskInput, user_input |-> "", intent |-> NoIntent,
     peer |-> NoPeerResult, order_data |-> NoOrderData,
     reply |-> NoReply, kind |-> "", text |-> NoText]

\* the handler goes on to call the response helper of the given kind
Respond(kind, text) ==
    /\ at' = "respond"
    /\ cur' = [cur EXCEPT !.kind = kind, !.text = text]

\* an exception is raised inside the try block of handle_task
RaiseInTry ==
    /\ at' = "except"
    /\ cur' = cur

\* what the LLM can answer to the SQL prompt (or the call raises):
\*   "followup_json"     {"status": "input_required", "message": ..}
\*   "status_other_json" {"status": <anything else>, ..}
\*   "status_bad_json"   starts with {"status" but is not JSON
\*   "type_sql"          {"type": ..} on the first line, then a SELECT
\*   "type_bad_json"     the same with a first line that is not JSON
\*   "select"            a SELECT statement
\*   "other"             anything else
LlmOutputs ==
    {"raise", "followup_json", "status_other_json", "status_bad_json",
     "type_sql", "type_bad_json", "select", "other"}

FollowUp(message) == [status |-> "input_required", message |-> message]
SqlReady == [status |-> "sql", message |-> ""]

\* weather_agent.py:111-159 and ticket_agent.py:149-207, after the date was
\* read: the dict generate_sql returns for an LLM output
generate_sql(agent, output) ==
    CASE output = "raise"             -> FollowUp("process_failed")
      [] output = "followup_json"     -> FollowUp("llm_message")
      [] output = "status_other_json" -> [status |-> "other", message |-> ""]
      [] output = "status_bad_json"   -> FollowUp("rephrase")
      [] output = "type_sql"          -> SqlReady
      [] output = "type_bad_json"     -> IF agent = "ticket" THEN FollowUp("rephrase")
                                         ELSE SqlReady
      [] output = "select"            -> SqlReady
      [] OTHER                        -> FollowUp("not_understood")

\* what the LLM can answer to the intent prompt (or the call raises):
\* no JSON, JSON that is not an object, the follow-up object, or a ready
\* object; contact is "complete", "incomplete" (no name or no phone, or no
\* contact key) or "null"; ticket_id 0 stands for null; ticket_type ""
\* and quantity 0 stand for an object without that key
ReadyIntents ==
    {[kind |-> "ready", contact |-> c, ticket_id |-> t, ticket_type |-> y, quantity |-> q] :
        c \in {"complete", "incomplete", "null"}, t \in {0, 1},
        y \in {"", "flight"}, q \in {0, 2}}

IntentOutputs ==
    {[NoIntent EXCEPT !.kind = k] :
        k \in {"raise", "bad_json", "not_a_dict", "followup_json"}}
    \cup ReadyIntents

\* order_agent.py:201-233, after the date was read: the value parse_intent
\* returns for an LLM output
parse_intent(output) ==
    CASE output.kind = "raise"    -> [output EXCEPT !.kind = "process_failed"]
      [] output.kind = "bad_json" -> [output EXCEPT !.kind = "not_understood"]
      [] OTHER                    -> output

\* the content of the Ticket Agent's message: a text, of which apology
\* says whether it contains "未找到" or "没有" and ids is the list of the
\* numbers n of its occurrences of "票务ID: n", or a value that is not a
\* string
PeerContents ==
    {[kind |-> "not_text", apology |-> FALSE, ids |-> <<>>]}
    \cup {[kind |-> "text", apology |-> a, ids |-> l] :
            a \in BOOLEAN, l \in {<<>>, <<7>>, <<7, 8>>}}

\* what TicketAgentClient.query_tickets can return, order_agent.py:142-185:
\* status "error" (no answer, or one that cannot be read), or status
\* "success" for the peer's state completed and the state itself for any
\* other state, with the content of its message
PeerResults ==
    {[NoPeerResult EXCEPT !.status = "error"]}
    \cup {[status |-> s, content |-> c] :
            s \in {"success", "failed", "input_required"}, c \in PeerContents}

\* order_agent.py:274-278 extract_ticket_ids
extract_ticket_ids(content) == content.ids

\* order_agent.py:334-341 and 385-392 order_data for the ticket id
OrderData(intent, ticket_id) ==
    [ticket_type |-> IF intent.ticket_type = "" THEN "train" ELSE intent.ticket_type,
     ticket_id |-> ticket_id,
     quantity |-> IF intent.quantity = 0 THEN 1 ELSE intent.quantity,
     contact |-> intent.contact]

\* the business-rule error messages of create_order, order_mcp.py:124-176
BusinessErrors ==
    {"ticket_not_found", "insufficient_stock", "stock_deduct_failed",
     "order_create_failed"}

\* the text a tool answers with: for create_order the order record, a
\* business-rule error payload {"status": "error", "message": ..}, a text
\* that is not JSON or JSON that is not an object; for the query tools the
\* envelopes of execute_query (base_service.py:96-109): the records, the
\* no_data object or the error object {"status": "error", "message": ..};
\* or a text that is not JSON
ToolTexts(agent) ==
    IF agent = "order"
    THEN {"order_created", "not_json", "json_not_dict"} \cup BusinessErrors
    ELSE {"records", "no_data", "error_payload", "not_json"}

\* base_agent.py:156-192 call_mcp_tool: whatever text the tool answered is
\* wrapped as status "success"; only an exception of the transport gives
\* status "error"
call_mcp_tool(transport_ok, tool_text) ==
    IF transport_ok
    THEN [status |-> "success", data |-> tool_text, message |-> ""]
    ELSE [status |-> "error", data |-> "", message |-> "exception_text"]

\* weather_agent.py:161-240 format_weather_results: the text for the data of
\* a tool result. An object without key "data" whose status is not no_data
\* is taken as one weather record, each missing field shown by its default
\*   "weather_card"   "🌤️ 天气预报查询结果：" with the records
\*   "no_weather"     "😔 未找到天气数据，.."
\*   "unknown_card"   the card of one record with city and date "未知"
\*   "raw_text"       "天气数据: <data>"
format_weather_results(data) ==
    CASE data = "records"       -> Text("formatted", "weather_card")
      [] data = "no_data"       -> Text("formatted", "no_weather")
      [] data = "error_payload" -> Text("formatted", "unknown_card")
      [] OTHER                  -> Text("formatted", "raw_text")

\* order_agent.py:280-299 format_booking_result; form "raise" stands for the
\* AttributeError of data.get on a JSON value that is not an object
format_booking_result(result) ==
    IF result.status = "success"
    THEN CASE result.data = "not_json"       -> Text("booking_success", "raw_text")
           [] result.data = "json_not_dict"  -> Text("raise", "")
           [] result.data = "order_created"  -> Text("booking_success", "order_no")
           [] OTHER                          -> Text("booking_success", "N/A")
    ELSE Text("booking_failure", result.message)

\* the state for a tool result, a failed call asking the user again
ResultKindAsksAgain(result) ==
    IF result.status = "success" THEN "completed" ELSE "input_required"

\* order_agent.py:350-353, 401-404 (weather_agent.py:297-305,
\* ticket_agent.py:311-317): the state for a tool result
ResultKind(result) == IF result.status = "success" THEN "completed" ELSE "failed"

(* ---------------- handle_task ----------------------------------------- *)

\* a task arrives at an Agent: handle_task is entered
HandleTaskBegin(agent, task) ==
    /\ at \in {"idle", "done"}
    /\ at' = "extract"
    /\ cur' = [NoHandling EXCEPT !.agent = agent, !.task = task]
    /\ resp' = NoResponse
    /\ calls' = NoCalls
    /\ UNCHANGED <<library_names, exceptAgent>>

\* step 1 of the three handlers: extract the user input; an empty one is
\* answered with the welcome message
\* (weather_agent.py:269-272, ticket_agent.py:283-286, order_agent.py:305-308)
HandleTaskExtract ==
    /\ at = "extract"
    /\ LET user_input == extract_user_input(cur.task)
       IN IF user_input = ""
          THEN /\ at' = "respond"
               /\ cur' = [cur EXCEPT !.user_input = user_input,
                                     !.kind = "input_required",
                                     !.text = Text("welcome", cur.agent)]
          ELSE /\ at' = "llm"
               /\ cur' = [cur EXCEPT !.user_input = user_input]
    /\ UNCHANGED <<resp, calls, library_names, exceptAgent>>

\* handle_task of the Weather and Ticket Agents after generate_sql returned r
\* (weather_agent.py:281-307, ticket_agent.py:295-319)
AfterGenerateSql(r) ==
    IF r.status = "input_required"
    THEN Respond("input_required", Text(r.message, ""))
    ELSE IF r.status = "sql"
    THEN at' = "mcp" /\ cur' = cur
    ELSE Respond("failed", Text("cannot_handle", ""))

\* Weather and Ticket Agents: generate_sql and what handle_task does with
\* its result. Reading the date comes before the LLM call; its
\* AttributeError is caught inside generate_sql.
GenerateSql ==
    /\ at = "llm"
    /\ cur.agent \in {"weather", "ticket"}
    /\ IF Resolves(DateHelper(cur.agent))
       THEN \E output \in LlmOutputs :
               /\ calls' = [calls EXCEPT !.llm = @ + 1]
               /\ AfterGenerateSql(generate_sql(cur.agent, output))
       ELSE /\ calls' = calls
            /\ AfterGenerateSql(FollowUp("process_failed"))
    /\ UNCHANGED <<resp, library_names, exceptAgent>>

\* handle_task of the Order Agent after parse_intent returned intent,
\* order_agent.py:313-331 (steps 3 to 5)
AfterParseIntent(intent) ==
    LET parsed == [cur EXCEPT !.intent = intent]
        answer(text) == [parsed EXCEPT !.kind = "input_required", !.text = text]
    IN IF intent.kind = "not_a_dict"
       THEN at' = "except" /\ cur' = parsed
       ELSE IF intent.kind = "followup_json"
       THEN at' = "respond" /\ cur' = answer(Text("llm_message", ""))
       ELSE IF intent.kind \in {"process_failed", "not_understood"}
       THEN at' = "respond" /\ cur' = answer(Text(intent.kind, ""))
       ELSE IF intent.contact = "null"
       THEN at' = "except" /\ cur' = parsed
       ELSE IF intent.contact = "incomplete"
       THEN at' = "respond" /\ cur' = answer(Text("need_contact", ""))
       ELSE IF intent.ticket_id # 0
       THEN /\ at' = "mcp"
            /\ cur' = [parsed EXCEPT !.order_data = OrderData(intent, intent.ticket_id)]
       ELSE at' = "peer" /\ cur' = parsed

\* Order Agent: parse_intent and steps 3 to 5 of handle_task
ParseIntent ==
    /\ at = "llm"
    /\ cur.agent = "order"
    /\ IF Resolves(DateHelper(cur.agent))
       THEN \E output \in IntentOutputs :
               /\ calls' = [calls EXCEPT !.llm = @ + 1]
               /\ AfterParseIntent(parse_intent(output))
       ELSE /\ calls' = calls
            /\ AfterParseIntent([NoIntent EXCEPT !.kind = "process_failed"])
    /\ UNCHANGED <<resp, library_names, exceptAgent>>

\* Order Agent, order_agent.py:355-409 (steps 6 to 9 up to the tool call):
\* ask the Ticket Agent and look for ticket ids in its answer
QueryTickets ==
    /\ at = "peer"
    /\ calls' = [calls EXCEPT !.peer = @ + 1]
    /\ \E ticket_result \in PeerResults :
         LET content == ticket_result.content
             ticket_ids == extract_ticket_ids(content)
             asked == [cur EXCEPT !.peer = ticket_result]
             answer(kind, form) == /\ at' = "respond"
                                   /\ cur' = [asked EXCEPT !.kind = kind,
                                                            !.text = Text(form, "")]
         IN IF ticket_result.status = "error"
            THEN answer("failed", "query_failed")
            ELSE IF content.kind = "not_text"
            THEN at' = "except" /\ cur' = asked
            ELSE IF content.apology
            THEN answer("input_required", "no_tickets")
            ELSE IF ticket_ids = <<>>
            THEN answer("input_required", "ask_ticket_id")
            ELSE IF Len(ticket_ids) = 1
            THEN /\ at' = "mcp"
                 /\ cur' = [asked EXCEPT !.order_data = OrderData(cur.intent, ticket_ids[1])]
            ELSE answer("input_required", "choose_ticket_id")
    /\ UNCHANGED <<resp, library_names, exceptAgent>>

\* the tool call and what handle_task does with its result
\* (weather_agent.py:291-305, ticket_agent.py:306-317,
\*  order_agent.py:343-353 and 394-404)
CallMcpTool ==
    /\ at = "mcp"
    /\ calls' = [calls EXCEPT !.mcp = @ + 1]
    /\ \E transport_ok \in BOOLEAN, tool_text \in ToolTexts(cur.agent) :
         LET result == call_mcp_tool(transport_ok, tool_text)
             formatted == format_booking_result(result)
             kind == ResultKind(result)
         IN /\ at' = IF cur.agent = "order" /\ formatted.form = "raise"
                     THEN "except" ELSE "respond"
            /\ cur' = [cur EXCEPT
                         !.reply = result,
                         !.kind = kind,
                         !.text = IF cur.agent = "order" THEN formatted
                                  ELSE IF result.status = "error"
                                  THEN Text("query_failed", result.message)
                                  ELSE IF cur.agent = "weather"
                                  THEN format_weather_results(result.data)
                                  ELSE Text("formatted", "")]
    /\ UNCHANGED <<resp, library_names, exceptAgent>>

\* the return statement with the call of the response helper; a helper name
\* that is not found raises AttributeError inside the try block
HandleTaskRespond ==
    /\ at = "respond"
    /\ IF Resolves(ResponseHelper(cur.agent, cur.kind))
       THEN /\ at' = "done"
            /\ resp' = ReturnedStatus(cur.kind, cur.text)
       ELSE /\ at' = "except"
            /\ resp' = resp
    /\ UNCHANGED <<cur, calls, library_names, exceptAgent>>

\* the except block of handle_task
\* (weather_agent.py:309-311, ticket_agent.py:321-323, order_agent.py:411-413):
\* it answers through the error helper; if that name is not found the
\* AttributeError leaves handle_task
HandleTaskExcept ==
    /\ at = "except"
    /\ at' = "done"
    /\ resp' = IF Resolves(ResponseHelper(cur.agent, "failed"))
               THEN ReturnedStatus("failed", Text("handler_error", ""))
               ELSE RaisedOut
    /\ UNCHANGED <<cur, calls, library_names, exceptAgent>>

(* ---------------- specification of the Agents -------------------------- *)

AgentInit(names) ==
    /\ library_names \in names
    /\ at = "idle"
    /\ cur = NoHandling
    /\ resp = NoResponse
    /\ calls = NoCalls

NextAgent ==
    \/ \E agent \in Agents, task \in TaskInputs : HandleTaskBegin(agent, task)
    \/ HandleTaskExtract
    \/ GenerateSql
    \/ ParseIntent
    \/ QueryTickets
    \/ CallMcpTool
    \/ HandleTaskRespond
    \/ HandleTaskExcept

\* the tasks of the Order Agent alone
NextOrderAgent ==
    \/ \E task \in TaskInputs : HandleTaskBegin("order", task)
    \/ HandleTaskExtract
    \/ ParseIntent
    \/ QueryTickets
    \/ CallMcpTool
    \/ HandleTaskRespond
    \/ HandleTaskExcept

(***************************************************************************)
(* PART III - a turn of the front ends: process_input of the CLI           *)
(* (src/src/main.py) and process_user_input of the Web page                *)
(* (src/src/app.py)                                                        *)
(***************************************************************************)

FrontEnds == {"cli", "web"}

\* most intents the intent recognition returns for one turn
MaxIntents == 2

\* intent names the LLM returns; "chat" stands for any name that is neither
\* a service, nor attraction, nor out_of_scope
IntentNames == {"weather", "train", "order", "attraction", "out_of_scope", "chat"}

IntentLists == UNION {[1..n -> IntentNames] : n \in 0..MaxIntents}

\* main.py:93-102 get_agent_for_intent, app.py:219-225 intent_agent_map
get_agent_for_intent(intent) ==
    CASE intent = "weather"                      -> "WeatherQueryAssistant"
      [] intent \in {"train", "flight", "concert"} -> "TicketQueryAssistant"
      [] intent = "order"                        -> "TicketOrderAssistant"
      [] OTHER                                   -> "none"

\* what the LLM answers to the intent-recognition prompt: the call raises,
\* a text that is not JSON, JSON that is not an object, or an object with
\* intents (a list) and follow_up_message ("" or the question "ask")
NoRecognition == [kind |-> "raise", intents |-> <<>>, follow_up |-> ""]

LlmRecognitions ==
    {[NoRecognition EXCEPT !.kind = k] : k \in {"raise", "bad_json", "not_a_dict"}}
    \cup {[kind |-> "json", intents |-> l, follow_up |-> f] :
            l \in IntentLists, f \in {"", "ask"}}

\* main.py:53-91 and app.py:131-157 recognize_intent: kind "raise" when an
\* exception leaves it, else the triple it returns; "not_understood" is
\* "抱歉，我无法理解您的问题.."
recognize_intent(llm) ==
    CASE llm.kind = "json"     -> [llm EXCEPT !.kind = "result"]
      [] llm.kind = "bad_json" -> [kind |-> "result", intents |-> <<"out_of_scope">>,
                                   follow_up |-> "not_understood"]
      [] OTHER                 -> NoRecognition

\* whether value is an element of the list
InList(value, list) == \E k \in 1..Len(list) : list[k] = value

\* the test of main.py:191 without its first operand
StopsOnFollowUpOnly(intents, follow_up) == follow_up # ""

\* main.py:191 and app.py:212: the turn stops with the follow-up
StopsWithFollowUp(intents, follow_up) == InList("out_of_scope", intents) \/ follow_up # ""

\* main.py:192 and app.py:213: follow_up or the generic greeting
FollowUpReply(follow_up) == IF follow_up # "" THEN <<follow_up>> ELSE <<"greeting">>

\* main.py:104-140 and app.py:160-187 call_agent: the text for what the
\* Agent call gave: the artifact text of a completed task, the text of the
\* status message of another state, or "服务暂时不可用: .." on an exception
AgentOutcomes == {"completed", "other_state", "exception"}

call_agent(agent_name, outcome) ==
    CASE outcome = "completed"   -> "artifact_text"
      [] outcome = "other_state" -> "status_text"
      [] OTHER                   -> "unavailable"

\* main.py:155-160 and app.py:193-198: the summary template of an Agent
SummaryTemplate(agent_name) ==
    CASE agent_name = "WeatherQueryAssistant" -> "weather_summary"
      [] agent_name = "TicketQueryAssistant"  -> "ticket_summary"
      [] OTHER                                -> "none"

\* a response as it is shown: its text, the template the LLM was called
\* with ("none" without a call) and whether the text is the LLM's summary
Shown(text, template, summarized) ==
    [text |-> text, template |-> template, summarized |-> summarized]

\* main.py:142-165 and app.py:190-201 summarize_response: the LLM's summary
\* (the text "<template> of <raw>") for the Weather and Ticket Agents, the
\* raw response when the LLM call raises and for every other Agent
summarize_response(agent_name, raw_response, llm_ok) ==
    LET template == SummaryTemplate(agent_name)
    IN IF template # "none" /\ llm_ok
       THEN Shown(template, template, TRUE)
       ELSE Shown(raw_response, template, FALSE)

\* every response shown as it was received
FinalResponseUnsummarized(agent_name, raw_response, llm_ok) ==
    Shown(raw_response, "none", FALSE)

\* main.py:214-217, app.py:240-243: the Order Agent's response is not summarized
FinalResponse(agent_name, raw_response, llm_ok) ==
    IF agent_name # "TicketOrderAssistant"
    THEN summarize_response(agent_name, raw_response, llm_ok)
    ELSE Shown(raw_response, "none", FALSE)

\* the reply for one intent: the intent it answers, its text, and for the
\* reply of an Agent what the Agent call gave and how it was summarized
IntentReply(k, intent, shown, raw) ==
    [k |-> k, intent |-> intent, text |-> shown.text, raw |-> raw,
     template |-> shown.template, summarized |-> shown.summarized]

\* the texts of the replies, joined last reply first
RECURSIVE JoinLastFirst(_)
JoinLastFirst(texts) ==
    IF texts = <<>> THEN <<>>
    ELSE IF Len(texts) = 1 THEN <<Head(texts)>>
    ELSE JoinLastFirst(Tail(texts)) \o <<"blank_line", Head(texts)>>

\* "\n\n".join(responses): the texts in the order of the list, a blank
\* line between two of them
RECURSIVE Join(_)
Join(texts) ==
    IF texts = <<>> THEN <<>>
    ELSE IF Len(texts) = 1 THEN <<Head(texts)>>
    ELSE <<Head(texts), "blank_line">> \o Join(Tail(texts))

\* main.py:222 and app.py:247: the joined replies, or the fixed text
\* "抱歉，暂时无法处理您的请求。" when there is none
CombinedReply(responses) ==
    IF responses # <<>>
    THEN Join([j \in 1..Len(responses) |-> responses[j].text])
    ELSE <<"cannot_process">>

\* main.py:232 error_msg = "处理失败: <exception>"
ErrorReply == <<"process_failed">>

\* a line of the transcript, "\nUser: .." or "\nAssistant: .."; an entry of
\* the messages list
Line(role, content) == [role |-> role, content |-> content]

UserInputs == {"u1"}

NoTurn ==
    [at |-> "idle", user_input |-> "", intents |-> <<>>, follow_up |-> "",
     i |-> 1, responses |-> <<>>, log |-> <<>>, reply |-> <<>>, raised |-> FALSE]

\* what the session's transcript holds before the turn: nothing, or an
\* earlier turn that was answered with the greeting
EarlierTurns ==
    {<<>>, <<Line("User", <<"u0">>), Line("Assistant", <<"greeting">>)>>}

\* main.py:183, 194: the entries of messages for the lines of a transcript
MessagesOf(lines) ==
    [k \in 1..Len(lines) |->
        Line(IF lines[k].role = "User" THEN "user" ELSE "assistant", lines[k].content)]

(* ---------------- process_input / process_user_input ------------------- *)

\* the turn ends: response is returned after it was added to the transcript
\* (and, in the CLI, to messages): main.py:193-195, 225-228; app.py:214-215,
\* 248-250
Reply(t, response) ==
    /\ conversation_history' = Append(conversation_history, Line("Assistant", response))
    /\ messages' = IF ui = "cli" THEN Append(messages, Line("assistant", response))
                   ELSE messages
    /\ turn' = [t EXCEPT !.at = "done", !.reply = response]

\* an exception is raised while the turn is processed. main.py:230-234: the
\* CLI catches it, adds the error text to messages and returns it.
\* app.py:204-250 has no try block: the exception leaves process_user_input.
Fail(t) ==
    /\ conversation_history' = conversation_history
    /\ messages' = IF ui = "cli" THEN Append(messages, Line("assistant", ErrorReply))
                   ELSE messages
    /\ turn' = IF ui = "cli"
               THEN [t EXCEPT !.at = "done", !.reply = ErrorReply]
               ELSE [t EXCEPT !.at = "done", !.raised = TRUE]

\* main.py:183-184, app.py:206: the user's line enters the transcript (and,
\* in the CLI, messages)
ProcessInputBegin(user_input) ==
    /\ turn.at = "idle"
    /\ turn' = [NoTurn EXCEPT !.at = "recognize", !.user_input = user_input]
    /\ conversation_history' = Append(conversation_history, Line("User", <<user_input>>))
    /\ messages' = IF ui = "cli" THEN Append(messages, Line("user", <<user_input>>))
                   ELSE messages
    /\ UNCHANGED <<ui, exceptFront>>

\* main.py:188-195, app.py:209-215: intent recognition, and the follow-up
\* branch
RecognizeIntent ==
    /\ turn.at = "recognize"
    /\ \E llm \in LlmRecognitions :
         LET r == recognize_intent(llm)
             t == [turn EXCEPT !.intents = r.intents, !.follow_up = r.follow_up]
         IN IF r.kind = "raise"
            THEN Fail(turn)
            ELSE IF StopsWithFollowUp(r.intents, r.follow_up)
            THEN Reply(t, FollowUpReply(r.follow_up))
            ELSE /\ turn' = [t EXCEPT !.at = "dispatch"]
                 /\ UNCHANGED <<conversation_history, messages>>
    /\ UNCHANGED <<ui, exceptFront>>

\* main.py:199-211, app.py:227-238: the next intent of the loop. attraction
\* is answered by the LLM at once; an intent with an Agent starts the call
\* of that Agent; any other intent is passed over. After the last intent
\* the replies are combined (main.py:222-228, app.py:247-250).
HandleIntent ==
    /\ turn.at = "dispatch"
    /\ IF turn.i > Len(turn.intents)
       THEN Reply(turn, CombinedReply(turn.responses))
       ELSE LET intent == turn.intents[turn.i]
                next == [turn EXCEPT !.i = @ + 1]
            IN IF intent = "attraction"
               THEN \E llm_ok \in BOOLEAN :
                       IF llm_ok
                       THEN /\ turn' = [next EXCEPT
                                   !.responses = Append(@,
                                       IntentReply(turn.i, intent,
                                                   Shown("recommendation", "none", FALSE),
                                                   "")),
                                   !.log = Append(@, [ev |-> "recommend", k |-> turn.i])]
                            /\ UNCHANGED <<conversation_history, messages>>
                       ELSE Fail(turn)
               ELSE /\ UNCHANGED <<conversation_history, messages>>
                    /\ IF get_agent_for_intent(intent) = "none"
                       THEN turn' = next
                       ELSE turn' = [turn EXCEPT
                                       !.at = "await",
                                       !.log = Append(@, [ev |-> "call", k |-> turn.i])]
    /\ UNCHANGED <<ui, exceptFront>>

\* main.py:211-219, app.py:238-245: the Agent call returns, its response is
\* summarized and collected
CollectResponse ==
    /\ turn.at = "await"
    /\ \E outcome \in AgentOutcomes, llm_ok \in BOOLEAN :
         LET intent == turn.intents[turn.i]
             agent_name == get_agent_for_intent(intent)
             raw_response == call_agent(agent_name, outcome)
             final_response == FinalResponse(agent_name, raw_response, llm_ok)
         IN turn' = [turn EXCEPT
                       !.at = "dispatch",
                       !.i = @ + 1,
                       !.responses = Append(@, IntentReply(turn.i, intent, final_response,
                                                           raw_response)),
                       !.log = Append(@, [ev |-> "reply", k |-> turn.i])]
    /\ UNCHANGED <<ui, messages, conversation_history, exceptFront>>

\* a session of one of the front ends, before the turn that is processed
FrontInit(uis, earlier) ==
    /\ ui \in uis
    /\ conversation_history \in earlier
    /\ messages = IF ui = "cli" THEN MessagesOf(conversation_history) ELSE <<>>
    /\ turn = NoTurn

NextFront ==
    \/ \E user_input \in UserInputs : ProcessInputBegin(user_input)
    \/ RecognizeIntent
    \/ HandleIntent
    \/ CollectResponse

\* no function or script of the utilities has run
UtilInit ==
    /\ run_input = "none"
    /\ run_output = "none"

(***************************************************************************)
(* PART IV - the scripts and the pure functions. run_input is what a run   *)
(* was given, run_output what it has produced so far.                      *)
(***************************************************************************)

(* ------------------- scripts/health_check.py --------------------------- *)

\* health_check.py:17-31 SERVICES: the categories in order, each with the
\* names of its services
SERVICES ==
    <<{"Weather MCP", "Ticket MCP", "Order MCP"},
      {"Weather Agent", "Ticket Agent", "Order Agent"},
      {"Streamlit"}>>

ServiceNames == UNION {SERVICES[c] : c \in 1..Len(SERVICES)}

\* what client.get(url) gives: a response with status 200 or another status
\* (503 here), a refused connection, a timeout
Responses == {"200", "503", "connect_error", "timeout"}

\* what the database probe meets: a working connection, or any exception
DbProbes == {"ok", "exception"}

\* health_check.py:34-69 check_service: (name, is_healthy, detail) for the
\* response; response is kept beside the result
check_service(name, response) ==
    [name |-> name, response |-> response,
     is_healthy |-> (response = "200"),
     detail |-> CASE response = "200" -> "OK"
                  [] response = "503" -> "HTTP 503"
                  [] response = "connect_error" -> "connection_failed"
                  [] OTHER -> "timed_out"]

\* health_check.py:119-142 check_database
check_database(probe) == probe = "ok"

\* health_check.py:90-116 print_results: all_healthy
print_results(results) == \A name \in DOMAIN results : results[name].is_healthy

\* the exit code without the database probe
ExitCodeOfServices(all_healthy, db_ok) == IF all_healthy THEN 0 ELSE 1

\* health_check.py:162 sys.exit(0 if (all_healthy and db_ok) else 1)
ExitCode(all_healthy, db_ok) == IF all_healthy /\ db_ok THEN 0 ELSE 1

NoResult == [name |-> "", response |-> "pending", is_healthy |-> FALSE, detail |-> ""]

\* the script before main() runs
HealthStart ==
    [at |-> "database", db |-> "pending", db_ok |-> FALSE, category |-> 1,
     results |-> [name \in ServiceNames |-> NoResult], code |-> -1]

\* health_check.py:149-155: the database probe
CheckDatabase ==
    /\ run_output.at = "database"
    /\ \E probe \in DbProbes :
         run_output' = [run_output EXCEPT !.at = "services", !.db = probe,
                                          !.db_ok = check_database(probe)]
    /\ UNCHANGED <<run_input, exceptUtil>>

\* health_check.py:77-78: one probe of the category that is gathered
\* completes, in any order
CheckService(name) ==
    /\ run_output.at = "services"
    /\ name \in SERVICES[run_output.category]
    /\ run_output.results[name] = NoResult
    /\ \E response \in Responses :
         run_output' = [run_output EXCEPT !.results[name] = check_service(name, response)]
    /\ UNCHANGED <<run_input, exceptUtil>>

\* health_check.py:76-81: gather has every result of the category; the
\* next category, or the results are returned
GatherCategory ==
    /\ run_output.at = "services"
    /\ \A name \in SERVICES[run_output.category] : run_output.results[name] # NoResult
    /\ run_output' = IF run_output.category < Len(SERVICES)
                     THEN [run_output EXCEPT !.category = @ + 1]
                     ELSE [run_output EXCEPT !.at = "print"]
    /\ UNCHANGED <<run_input, exceptUtil>>

\* health_check.py:159-162: the results are printed and the script exits
Exit ==
    /\ run_output.at = "print"
    /\ run_output' = [run_output EXCEPT
                        !.at = "exited",
                        !.code = ExitCode(print_results(run_output.results),
                                          run_output.db_ok)]
    /\ UNCHANGED <<run_input, exceptUtil>>

NextHealth ==
    \/ CheckDatabase
    \/ \E name \in ServiceNames : CheckService(name)
    \/ GatherCategory
    \/ Exit

(* --------------- order numbers and utils/validators.py ----------------- *)

\* a string is the sequence of its characters
DigitChars == <<"0", "1", "2", "3", "4", "5", "6", "7", "8", "9">>

Digits == {DigitChars[k] : k \in 1..10}

UpperLetters ==
    {"A", "B", "C", "D", "E", "F", "G", "H", "I", "J", "K", "L", "M",
     "N", "O", "P", "Q", "R", "S", "T", "U", "V", "W", "X", "Y", "Z"}

\* int(c) of a digit character
DigitValue(c) == CHOOSE d \in 0..9 : DigitChars[d + 1] = c

\* a field of strftime: n in decimal, zero-padded to width characters
RECURSIVE Padded(_, _)
Padded(n, width) ==
    IF width = 0 THEN <<>>
    ELSE Padded(n \div 10, width - 1) \o <<DigitChars[(n % 10) + 1]>>

\* datetime.now().strftime('%Y%m%d%H%M%S')
strftime(now) ==
    Padded(now.year, 4) \o Padded(now.month, 2) \o Padded(now.day, 2)
    \o Padded(now.hour, 2) \o Padded(now.minute, 2) \o Padded(now.second, 2)

\* a character left as it is
NotUpper(c) == c

\* str.upper() of one character
Upper(c) ==
    CASE c = "a" -> "A" [] c = "b" -> "B" [] c = "c" -> "C" [] c = "d" -> "D"
      [] c = "e" -> "E" [] c = "f" -> "F" [] c = "x" -> "X" [] OTHER -> c

\* order_mcp.py:27-31 generate_order_no for the clock reading now and the
\* first six characters hex of uuid4().hex
generate_order_no(now, hex) ==
    <<"O", "R", "D">> \o strftime(now) \o [k \in 1..6 |-> Upper(hex[k])]

\* re.match(r'^ORD\d{14}[A-Z0-9]{6}$', order_no); $ also matches before a
\* newline that ends the string
OrderNoPattern(order_no) ==
    /\ \/ Len(order_no) = 23
       \/ Len(order_no) = 24 /\ order_no[24] = "newline"
    /\ SubSeq(order_no, 1, 3) = <<"O", "R", "D">>
    /\ \A k \in 4..17 : order_no[k] \in Digits
    /\ \A k \in 18..23 : order_no[k] \in UpperLetters \cup Digits

\* what a validator returns: (valid, message)
Valid == [valid |-> TRUE, message |-> ""]

Invalid(message) == [valid |-> FALSE, message |-> message]

\* validators.py:163-181 validate_order_no; the messages are
\* "订单号不能为空" and "订单号格式不正确"
validate_order_no(order_no) ==
    IF order_no = <<>> THEN Invalid("order_no_empty")
    ELSE IF ~OrderNoPattern(order_no) THEN Invalid("order_no_format")
    ELSE Valid

\* the clock readings and uuid prefixes of the runs
Clocks ==
    [year : {2024}, month : {1, 12}, day : {9, 31},
     hour : {0, 23}, minute : {5}, second : {0, 59}]

HexChars == {"0", "a", "f"}

HexPrefixes == [1..6 -> HexChars]

\* order_mcp.py:135, 162: the order number create_order makes and returns,
\* and what validate_order_no says of it
GenerateOrderNo ==
    /\ run_output.at = "start"
    /\ LET order_no == generate_order_no(run_input.now, run_input.hex)
       IN run_output' = [at |-> "returned", order_no |-> order_no,
                         checked |-> validate_order_no(order_no)]
    /\ UNCHANGED <<run_input, exceptUtil>>

\* validators.py:51-52 re.match(r'^\d{17}[\dXx]$', id_card)
IdCardPattern(id_card) ==
    /\ \/ Len(id_card) = 18
       \/ Len(id_card) = 19 /\ id_card[19] = "newline"
    /\ \A k \in 1..17 : id_card[k] \in Digits
    /\ id_card[18] \in Digits \cup {"X", "x"}

\* validators.py:56-57
weights == <<7, 9, 10, 5, 8, 4, 2, 1, 6, 3, 7, 9, 10, 5, 8, 4, 2>>

check_codes == <<"1", "0", "X", "9", "8", "7", "6", "5", "4", "3", "2">>

\* validators.py:60 sum(int(id_card[i]) * weights[i] for i in range(17)),
\* the first n terms
RECURSIVE WeightedSum(_, _)
WeightedSum(id_card, n) ==
    IF n = 0 THEN 0
    ELSE WeightedSum(id_card, n - 1) + DigitValue(id_card[n]) * weights[n]

\* the validation that stops after the pattern
validate_id_card_by_pattern(id_card) ==
    IF id_card = <<>> THEN Valid
    ELSE IF ~IdCardPattern(id_card) THEN Invalid("id_card_format")
    ELSE Valid

\* validators.py:39-69 validate_id_card; the messages are
\* "请输入有效的18位身份证号码" and "身份证号码校验码不正确"
validate_id_card(id_card) ==
    IF id_card = <<>> THEN Valid
    ELSE IF ~IdCardPattern(id_card) THEN Invalid("id_card_format")
    ELSE LET total == WeightedSum(id_card, 17)
             expected == check_codes[(total % 11) + 1]
         IN IF Upper(id_card[Len(id_card)]) # expected
            THEN Invalid("id_card_check_code")
            ELSE Valid

\* the first fifteen digits of the number of tests/test_validators.py:45
\* and of the number 11010519491231002X
Stems ==
    {<<"1", "1", "0", "1", "0", "1", "1", "9", "9", "0", "0", "1", "0", "1", "1">>,
     <<"1", "1", "0", "1", "0", "5", "1", "9", "4", "9", "1", "2", "3", "1", "0">>}

LastChars == Digits \cup {"X", "x", "a", "newline"}

\* the numbers validate_id_card is given: none, seventeen digits, eighteen
\* characters with any last character, these followed by one more
\* character, and these with a letter among the digits
IdCards ==
    LET seventeen == {stem \o <<a, b>> : stem \in Stems, a \in {"0", "2", "7"}, b \in Digits}
        eighteen == {d \o <<c>> : d \in seventeen, c \in LastChars}
    IN {<<>>} \cup seventeen \cup eighteen
       \cup {e \o <<c>> : e \in eighteen, c \in {"newline", "0"}}
       \cup {[e EXCEPT ![k] = "X"] : e \in eighteen, k \in {1, 17}}

ValidateIdCard ==
    /\ run_output.at = "start"
    /\ run_output' = [at |-> "returned", checked |-> validate_id_card(run_input)]
    /\ UNCHANGED <<run_input, exceptUtil>>

\* validators.py:31-33 re.match(r'^1[3-9]\d{9}$', phone)
PhonePattern(phone) ==
    /\ \/ Len(phone) = 11
       \/ Len(phone) = 12 /\ phone[12] = "newline"
    /\ phone[1] = "1"
    /\ phone[2] \in Digits \ {"0", "1", "2"}
    /\ \A k \in 3..11 : phone[k] \in Digits

\* validators.py:18-36 validate_phone; the messages are "手机号不能为空" and
\* "请输入有效的11位手机号码"
validate_phone(phone) ==
    IF phone = <<>> THEN Invalid("phone_empty")
    ELSE IF PhonePattern(phone) THEN Valid
    ELSE Invalid("phone_format")

\* validators.py:148 the characters a name may not hold, of which the
\* names here hold "7" and "@"
IllegalNameChars == Digits \cup {"@", "#", "$", "%", "^", "&", "*", "(", ")", "+", "="}

\* validators.py:128-151 validate_name; the messages are "姓名不能为空",
\* "姓名至少需要2个字符", "姓名不能超过20个字符", "姓名包含非法字符"
validate_name(name) ==
    IF name = <<>> THEN Invalid("name_empty")
    ELSE IF Len(name) < 2 THEN Invalid("name_too_short")
    ELSE IF Len(name) > 20 THEN Invalid("name_too_long")
    ELSE IF \E k \in 1..Len(name) : name[k] \in IllegalNameChars
    THEN Invalid("name_illegal_chars")
    ELSE Valid

\* a date argument: the empty string, a text strptime cannot parse, or a
\* date in the format YYYY-MM-DD that many days after today
NoDate == [text |-> "empty", days_after_today |-> 0]

NotADate == [text |-> "unparsable", days_after_today |-> 0]

Dates ==
    {NoDate, NotADate}
    \cup {[text |-> "date", days_after_today |-> d] : d \in {-1, 0, 1}}

\* validators.py:72-95 validate_date with allow_past = False; the messages
\* are "日期不能为空", "日期格式不正确，请使用 YYYY-MM-DD 格式", "日期不能早于今天"
validate_date(date_str) ==
    IF date_str = NoDate THEN Invalid("date_empty")
    ELSE IF date_str.text # "date" THEN Invalid("date_format")
    ELSE IF date_str.days_after_today < 0 THEN Invalid("date_past")
    ELSE Valid

\* the seat types with 特等座 ("premier") among them
SeatTypesWithPremier == {"second_class", "first_class", "business", "premier"}

\* validators.py:190 SUPPORTED_SEAT_TYPES["train"]: 二等座, 一等座, 商务座
SupportedTrainSeatTypes == {"second_class", "first_class", "business"}

\* a value that is false in a condition: None or the empty string
Falsy(value) == value \in {"None", ""}

\* validators.py:196-232 validate_train_booking; the messages of its own
\* are "请提供出发城市和到达城市", "出发城市和到达城市不能相同" and
\* "座位类型不支持，可选: .."
validate_train_booking(departure_city, arrival_city, date, seat_type, contact_name, contact_phone) ==
    IF Falsy(departure_city) \/ Falsy(arrival_city) THEN Invalid("cities_missing")
    ELSE IF departure_city = arrival_city THEN Invalid("cities_must_differ")
    ELSE IF ~validate_date(date).valid THEN validate_date(date)
    ELSE IF ~Falsy(seat_type) /\ seat_type \notin SupportedTrainSeatTypes
    THEN Invalid("seat_type_unsupported")
    ELSE IF ~validate_name(contact_name).valid THEN validate_name(contact_name)
    ELSE IF ~validate_phone(contact_phone).valid THEN validate_phone(contact_phone)
    ELSE Valid

\* the messages that contain "不能相同"
SaysMustDiffer == {"cities_must_differ"}

\* the names: none, one character, two (the second a letter, a digit or
\* a sign), twenty and twenty-one characters
Names ==
    {<<>>, <<"z">>, <<"z", "s">>, <<"z", "7">>, <<"z", "@">>,
     [k \in 1..20 |-> "z"], [k \in 1..21 |-> "z"]}

\* the phone numbers: none, 13800138000 (tests/test_validators.py:129),
\* it with a newline after it, 23800138000, 12800138000, ten digits, and
\* a letter among the digits
Phones ==
    LET tail == <<"8", "0", "0", "1", "3", "8", "0", "0", "0">>
    IN {<<>>, <<"1", "3">> \o tail, <<"1", "3">> \o tail \o <<"newline">>,
        <<"2", "3">> \o tail, <<"1", "2">> \o tail,
        <<"1", "3">> \o SubSeq(tail, 1, 8), <<"1", "3", "a">> \o SubSeq(tail, 2, 9)}

\* the requests validate_train_booking is given
TrainBookings ==
    [departure_city : {"", "Beijing", "Shanghai"},
     arrival_city : {"", "Beijing", "Shanghai"},
     date : Dates,
     seat_type : {"None", "", "second_class", "first_class", "business", "premier"},
     contact_name : Names,
     contact_phone : Phones]

ValidateTrainBooking ==
    /\ run_output.at = "start"
    /\ run_output' =
         [at |-> "returned",
          checked |-> validate_train_booking(
                         run_input.departure_city, run_input.arrival_city,
                         run_input.date, run_input.seat_type,
                         run_input.contact_name, run_input.contact_phone)]
    /\ UNCHANGED <<run_input, exceptUtil>>

(* ---------------- mcp_servers/base_service.py execute_query ------------ *)

\* self._conn when execute_query is called: None, a live connection, or a
\* connection that was dropped
ConnStates == {"None", "connected", "dropped"}

\* base_service.py:43-58 _connect: the connection is made, or MySQLError
\* is logged and raised again
ConnectOutcomes == {"connected", "MySQLError"}

\* base_service.py:60-66 _ensure_connection: the connection after it and
\* whether MySQLError left it, given what the first and the second call of
\* _connect meet; connects counts the calls of _connect
ensure_connection(conn, first, second) ==
    IF conn = "connected"
    THEN [conn |-> conn, raised |-> FALSE, connects |-> 0]
    ELSE IF first = "connected"
    THEN [conn |-> "connected", raised |-> FALSE, connects |-> 1]
    ELSE [conn |-> IF second = "connected" THEN "connected" ELSE conn,
          raised |-> second # "connected", connects |-> 2]

\* the values of a row: a text, a date, a datetime, a Decimal
Cells == {"text", "date", "datetime", "Decimal"}

\* base_service.py:84-88, 167-177 _encode_value of the special types
encode_value(value) ==
    CASE value = "date"    -> "date_text"
      [] value = "datetime" -> "datetime_text"
      [] value = "Decimal" -> "float"
      [] OTHER             -> value

\* cursor.fetchall(): no row, one row or two rows of one value
ResultSets == UNION {[1..n -> Cells] : n \in {0, 1, 2}}

\* what the statement is: a query, a statement without a result set
\* (fetchall raises InterfaceError, a MySQLError), a text the server rejects
SqlTexts == {"select", "no_result_set", "rejected"}

\* what cursor.execute and cursor.fetchall give for the statement: rows,
\* or a MySQLError with its message
DbResults(sql) ==
    IF sql = "select"
    THEN {[error |-> "", rows |-> rows] : rows \in ResultSets}
         \cup {[error |-> "connection_lost", rows |-> <<>>]}
    ELSE {[error |-> sql, rows |-> <<>>]}

NoEnvelope == [status |-> "none", data |-> <<>>, message |-> ""]

\* base_service.py:80-109: the envelope for what the database gave
Envelope(result) ==
    IF result.error # ""
    THEN [NoEnvelope EXCEPT !.status = "error", !.message = result.error]
    ELSE IF result.rows # <<>>
    THEN [NoEnvelope EXCEPT !.status = "success",
                            !.data = [k \in 1..Len(result.rows) |->
                                         encode_value(result.rows[k])]]
    ELSE [NoEnvelope EXCEPT !.status = "no_data", !.message = "not_found"]

QueryStart ==
    [at |-> "start", connects |-> 0, raised |-> FALSE, result |-> [error |-> "", rows |-> <<>>],
     envelope |-> NoEnvelope]

\* base_service.py:78: self._ensure_connection(), before the try block
EnsureConnection ==
    /\ run_output.at = "start"
    /\ \E first \in ConnectOutcomes, second \in ConnectOutcomes :
         LET e == ensure_connection(run_input.conn, first, second)
         IN run_output' = [run_output EXCEPT
                             !.at = IF e.raised THEN "raised" ELSE "connected",
                             !.connects = e.connects,
                             !.raised = e.raised]
    /\ UNCHANGED <<run_input, exceptUtil>>

\* base_service.py:80-109: the statement is executed and the envelope
\* returned
RunQuery ==
    /\ run_output.at = "connected"
    /\ \E result \in DbResults(run_input.sql) :
         run_output' = [run_output EXCEPT !.at = "returned", !.result = result,
                                          !.envelope = Envelope(result)]
    /\ UNCHANGED <<run_input, exceptUtil>>

NextQuery == EnsureConnection \/ RunQuery

(* ------------------- config/logging_config.py -------------------------- *)

\* the copies of the module that are loaded: LoggerFactory of
\* src.config.logging_config, and of the same file run as __main__
\* (logging_config.py:122-129); each has a _loggers of its own, the
\* registry of the logging library is one
Factories == {"package", "main"}

LoggerNames == {"SmartVoyage", "TestLogger", "OrderAgent"}

\* a logger the library has not made yet
NoLogger == [id |-> 0, handlers |-> <<>>]

\* the handlers of a logger after the step that adds a pair on every request
add_handlers_always(handlers) == handlers \o <<"console", "rotating_file">>

\* logging_config.py:76-78: the handlers of a logger after the guarded step
add_handlers(handlers) ==
    IF handlers = <<>> THEN handlers \o <<"console", "rotating_file">> ELSE handlers

\* a run before any request: nothing cached, no logger made
LoggingStart ==
    [registry |-> [name \in LoggerNames |-> NoLogger],
     loggers |-> [f \in Factories |-> [name \in LoggerNames |-> 0]],
     returned |-> [name \in LoggerNames |-> {}],
     made |-> 0, requests |-> 0]

\* logging_config.py:57-81 LoggerFactory.get_logger(name) of the copy f.
\* logging.getLogger(name) makes the logger of that name on the first call
\* and answers the same object afterwards; returned collects the objects
\* answered for the name.
GetLogger(f, name) ==
    /\ run_output.requests < MaxRequests
    /\ LET cached == run_output.loggers[f][name]
           known == run_output.registry[name]
           logger == IF known = NoLogger
                     THEN [id |-> run_output.made + 1, handlers |-> <<>>]
                     ELSE known
           ready == [logger EXCEPT !.handlers = add_handlers(@)]
       IN IF cached # 0
          THEN run_output' = [run_output EXCEPT
                                !.returned[name] = @ \cup {cached},
                                !.requests = @ + 1]
          ELSE run_output' = [run_output EXCEPT
                                !.registry[name] = ready,
                                !.loggers[f][name] = ready.id,
                                !.returned[name] = @ \cup {ready.id},
                                !.made = IF known = NoLogger THEN @ + 1 ELSE @,
                                !.requests = @ + 1]
    /\ UNCHANGED <<run_input, exceptUtil>>

NextLogging == \E f \in Factories, name \in LoggerNames : GetLogger(f, name)

(* ------------------- utils/spider_weather.py --------------------------- *)

\* spider_weather.py:12-17 city_codes, in the order of the dictionary:
\* 北京, 上海, 广州, 深圳
city_codes == <<"beijing", "shanghai", "guangzhou", "shenzhen">>

\* spider_weather.py:57-60 get_latest_update_time: MAX(update_time) of the
\* city, a DATETIME without zone (the wall clock of Asia/Shanghai that
\* store_weather_data wrote), or None. Times are minutes.
NoLatestTime == [known |-> FALSE, wall |-> 0]

\* the instant a wall clock of Asia/Shanghai (UTC+08:00) stands for
InstantOfWall(wall) == wall - 8 * 60

\* spider_weather.py:68 latest_time.replace(tzinfo=TZ), TZ being
\* pytz.timezone('Asia/Shanghai'): replace() attaches the zone's first
\* offset, the local mean time LMT+8:06, not UTC+08:00
replace_tzinfo(wall) == wall - (8 * 60 + 6)

\* spider_weather.py:62-69 should_update_data; datetime.now(TZ) is the
\* instant of the run, run_input.now
should_update_data(latest_time, force_update) ==
    IF force_update THEN TRUE
    ELSE IF ~latest_time.known THEN TRUE
    ELSE (run_input.now - replace_tzinfo(latest_time.wall)) * 60 >= 24 * 3600

\* the watermarks a city is read with: none, and ages of 1 h, 23 h 56 min,
\* 24 h and 33 h 20 min before the run
LatestTimes(now) ==
    {NoLatestTime} \cup {[known |-> TRUE, wall |-> now + 8 * 60 - age] : age \in {60, 1436, 1440, 2000}}

\* what requests.get answers in fetch_weather_data:
\*   "json"            a body that parses, code "200"
\*   "json_code_other" a body that parses, code not "200"
\*   "request_error"   requests.RequestException (also raise_for_status)
\*   "not_json"        a body that does not parse, no gzip header
\*   "gzip_json"       Content-Encoding gzip, content already inflated by
\*                     requests (gzip.BadGzipFile), the text parses
\*   "gzip_empty"      the same with an empty text
\*   "gzip_not_json"   the same with a text that does not parse
SpiderResponses == {"json", "json_code_other", "request_error", "not_json", "gzip_json", "gzip_empty", "gzip_not_json"}

\* spider_weather.py:33-55 fetch_weather_data: the data, None, or the
\* json.JSONDecodeError that leaves the handler of gzip.BadGzipFile (:53-55)
fetch_weather_data(response) ==
    CASE response = "json" -> "data_200"
      [] response = "json_code_other" -> "data_other"
      [] response = "request_error" -> "None"
      [] response = "not_json" -> "None"
      [] response = "gzip_json" -> "data_200"
      [] response = "gzip_empty" -> "None"
      [] response = "gzip_not_json" -> "raise"

\* the days of a forecast as cursor.execute takes them: written, or refused
\* with mysql.connector.Error
DailyData == {<<>>, <<"ok", "ok">>, <<"db_error", "ok">>, <<"ok", "db_error">>, <<"db_error", "db_error">>}

RECURSIVE Committed(_)
\* spider_weather.py:116-124: the rows committed, a refused row is rolled
\* back and the loop goes on
Committed(days) ==
    IF days = <<>> THEN 0
    ELSE (IF Head(days) = "ok" THEN 1 ELSE 0) + Committed(Tail(days))

NoCity == [city |-> "", latest_time |-> NoLatestTime, update |-> FALSE, fetched |-> "no", rows |-> 0]

\* update_weather has connected and not yet read a city
SpiderStart == [at |-> "loop", i |-> 1, cur |-> NoCity]

\* spider_weather.py:130-132: the watermark of the next city is read and
\* should_update_data decides; spider_weather.py:138 when it says no
GetLatestUpdateTime ==
    /\ run_output.at = "loop"
    /\ run_output.i <= Len(city_codes)
    /\ \E latest_time \in LatestTimes(run_input.now) :
        LET update == should_update_data(latest_time, run_input.force_update)
            read == [NoCity EXCEPT !.city = city_codes[run_output.i],
                                  !.latest_time = latest_time,
                                  !.update = update]
        IN run_output' = IF update
                         THEN [run_output EXCEPT !.at = "fetch", !.cur = read]
                         ELSE [run_output EXCEPT !.i = @ + 1, !.cur = read]
    /\ UNCHANGED <<run_input, exceptUtil>>

\* spider_weather.py:134-136: fetch_weather_data; "if data" lets the data
\* through to store_weather_data, whose first lines (:72-74) skip a code
\* that is not "200"
FetchWeatherData ==
    /\ run_output.at = "fetch"
    /\ \E response \in SpiderResponses :
        LET data == fetch_weather_data(response)
        IN run_output' =
             CASE data = "raise" ->
                    [run_output EXCEPT !.at = "raised", !.cur.fetched = response]
               [] data = "data_200" ->
                    [run_output EXCEPT !.at = "store", !.cur.fetched = response]
               [] OTHER ->
                    [run_output EXCEPT !.at = "loop", !.i = @ + 1, !.cur.fetched = response]
    /\ UNCHANGED <<run_input, exceptUtil>>

\* spider_weather.py:76-124: the rows of the forecast, one INSERT ... ON
\* DUPLICATE KEY UPDATE and one commit per day
StoreWeatherData ==
    /\ run_output.at = "store"
    /\ \E days \in DailyData :
        run_output' = [run_output EXCEPT !.at = "loop", !.i = @ + 1, !.cur.rows = Committed(days)]
    /\ UNCHANGED <<run_input, exceptUtil>>

\* spider_weather.py:140-141: after the last city the cursor and the
\* connection are closed
CloseSpider ==
    /\ run_output.at = "loop"
    /\ run_output.i > Len(city_codes)
    /\ run_output' = [run_output EXCEPT !.at = "closed"]
    /\ UNCHANGED <<run_input, exceptUtil>>

NextSpider ==
    \/ GetLatestUpdateTime
    \/ FetchWeatherData
    \/ StoreWeatherData
    \/ CloseSpider

(***************************************************************************)
(* Specifications                                                          *)
(***************************************************************************)

vars == <<tickets, orders, pc, frame, ret, faulted, begin, initialSeats,
          library_names, at, cur, resp, calls,
          ui, messages, conversation_history, turn, run_input, run_output>>

\* no call is in flight
Quiet == \A c \in Callers : pc[c] = "idle"

\* the caller of the one-at-a-time specification
SeqCallers == {"c1"}

\* the parts that a specification leaves as they start
AgentsIdle == AgentInit({{}})
FrontIdle == FrontInit({"cli"}, {<<>>})

Init == BackendInit(TRUE) /\ AgentsIdle /\ FrontIdle /\ UtilInit

\* calls of create_order and cancel_order run one at a time: a call begins
\* only when no call is in flight
Next ==
    \E c \in SeqCallers :
        \/ \E tt \in TicketTypeInputs, id \in TicketIdInputs, q \in Quantities :
              Quiet /\ CreateOrderBegin(c, tt, id, q, TRUE)
        \/ \E no \in OrderNos : Quiet /\ CancelOrderBegin(c, no, TRUE)
        \/ CreateOrderGetTicket(c, TRUE)
        \/ CreateOrderDecrement(c, TRUE)
        \/ CreateOrderInsert(c, TRUE)
        \/ CreateOrderCompensate(c, TRUE)
        \/ CancelOrderGetOrder(c, TRUE)
        \/ CancelOrderUpdateStatus(c, TRUE)
        \/ CancelOrderRestore(c, TRUE)

Spec == Init /\ [][Next]_vars

InitCreate == BackendInit(FALSE) /\ AgentsIdle /\ FrontIdle /\ UtilInit

\* only create_order calls, in flight at the same time and interleaved
\* statement by statement (no history kept)
NextCreate ==
    \E c \in Callers :
        \/ \E tt \in TicketTypeInputs, id \in TicketIdInputs, q \in Quantities :
              CreateOrderBegin(c, tt, id, q, FALSE)
        \/ CreateOrderGetTicket(c, FALSE)
        \/ CreateOrderDecrement(c, FALSE)
        \/ CreateOrderInsert(c, FALSE)
        \/ CreateOrderCompensate(c, FALSE)

SpecCreate == InitCreate /\ [][NextCreate]_vars

\* the order the concurrent cancellations are about: order 1, pending, as
\* create_order left it
PendingOrder(quantity, price) ==
    OrderRow(1, "train", 1, quantity, price, TotalPrice(price, quantity), NewOrderStatus)

InitCancel ==
    /\ \E r \in 0..MaxSeats, p \in TicketPrices, q \in Quantities :
          BackendAt(r, p, {PendingOrder(q, p)})
    /\ AgentsIdle /\ FrontIdle /\ UtilInit

\* cancel_order calls for order 1 in flight at the same time, interleaved
\* statement by statement: a call begins only while no call has returned
NextCancel ==
    \E c \in Callers :
        \/ ret = NoCall /\ CancelOrderBegin(c, 1, FALSE)
        \/ CancelOrderGetOrder(c, TRUE)
        \/ CancelOrderUpdateStatus(c, TRUE)
        \/ CancelOrderRestore(c, TRUE)

SpecCancel == InitCancel /\ [][NextCancel]_vars

\* create_order and cancel_order one at a time, from a store without orders
SpecLedger == InitCreate /\ [][Next]_vars

\* the quantities a caller may pass when nothing restricts their sign
SignedQuantities == {-1, 0, 1}

\* create_order one call at a time, with quantities of either sign
NextQuantity ==
    \E c \in SeqCallers :
        \/ \E id \in TicketIdInputs, q \in SignedQuantities :
              Quiet /\ CreateOrderBegin(c, "train", id, q, TRUE)
        \/ CreateOrderGetTicket(c, TRUE)
        \/ CreateOrderDecrement(c, TRUE)
        \/ CreateOrderInsert(c, TRUE)
        \/ CreateOrderCompensate(c, TRUE)

SpecQuantity == InitCreate /\ [][NextQuantity]_vars

\* the Agents alone; the backend stays as it starts
BackendIdle == BackendAt(MaxSeats, CHOOSE p \in TicketPrices : TRUE, {})

InitAgent == BackendIdle /\ AgentInit(SUBSET ForeignNames) /\ FrontIdle /\ UtilInit

SpecAgent == InitAgent /\ [][NextAgent]_vars

\* the front ends alone
InitFront == BackendIdle /\ AgentsIdle /\ FrontInit(FrontEnds, EarlierTurns) /\ UtilInit

SpecFront == InitFront /\ [][NextFront]_vars

SpecOrderAgent == InitAgent /\ [][NextOrderAgent]_vars

\* the other parts, none of them running
OthersIdle == BackendIdle /\ AgentsIdle /\ FrontIdle

\* one run of the health-check script
InitHealth == OthersIdle /\ run_input = "health_check" /\ run_output = HealthStart

SpecHealth == InitHealth /\ [][NextHealth]_vars

\* a function of Part IV before it is applied to run_input
Unapplied == run_output = [at |-> "start"]

\* generate_order_no at one reading of the clock with one uuid
InitOrderNo ==
    /\ OthersIdle
    /\ run_input \in [now : Clocks, hex : HexPrefixes]
    /\ Unapplied

SpecOrderNo == InitOrderNo /\ [][GenerateOrderNo]_vars

\* validate_id_card applied to one number
InitIdCard == OthersIdle /\ run_input \in IdCards /\ Unapplied

SpecIdCard == InitIdCard /\ [][ValidateIdCard]_vars

\* validate_train_booking applied to one request
InitBooking == OthersIdle /\ run_input \in TrainBookings /\ Unapplied

SpecBooking == InitBooking /\ [][ValidateTrainBooking]_vars

\* one call of execute_query
InitQuery ==
    /\ OthersIdle
    /\ run_input \in [sql : SqlTexts, conn : ConnStates]
    /\ run_output = QueryStart

SpecQuery == InitQuery /\ [][NextQuery]_vars

\* a run of requests to the logger factory
InitLogging == OthersIdle /\ run_input = "logging" /\ run_output = LoggingStart

SpecLogging == InitLogging /\ [][NextLogging]_vars

\* update_weather(force_update) at an instant, in minutes
InitSpider ==
    /\ OthersIdle
    /\ run_input \in [force_update : BOOLEAN, now : {100000}]
    /\ run_output = SpiderStart

SpecSpider == InitSpider /\ [][NextSpider]_vars

(***************************************************************************)
(* Properties                                                              *)
(***************************************************************************)

\* the ticket row a call's arguments or an order row name
RowOf(x) == <<table_map(x.ticket_type), x.ticket_id>>

\* sum of the quantities of a set of order rows
RECURSIVE SumQuantity(_)
SumQuantity(rows) ==
    IF rows = {} THEN 0
    ELSE LET o == CHOOSE x \in rows : TRUE
         IN o.quantity + SumQuantity(rows \ {o})

\* the step with which the create_order call of c returns success
CreateSucceeds(c) ==
    /\ frame[c].op = "create_order"
    /\ pc[c] # "idle" /\ pc'[c] = "idle"
    /\ ret'.status = "success"

\* the step with which the cancel_order call of c returns or raises
CancelEnds(c) ==
    /\ frame[c].op = "cancel_order"
    /\ pc[c] # "idle" /\ pc'[c] = "idle"

\* C1: when create_order succeeds for a ticket row that had remaining_seats
\* R at the call and a quantity q with 1 <= q <= R, the row has
\* remaining_seats R - q afterwards, exactly one order row was inserted, its
\* status is pending and its total_price is the row's price times q.
C1_CreateOrderEffect ==
    [][\A c \in SeqCallers :
          LET f == frame[c]
              k == RowOf(f)
              new == orders' \ orders
          IN (/\ CreateSucceeds(c)
              /\ k \in DOMAIN tickets
              /\ 1 <= f.quantity /\ f.quantity <= begin.seats[k])
             => /\ tickets'[k].remaining_seats = begin.seats[k] - f.quantity
                /\ orders \subseteq orders'
                /\ Cardinality(new) = 1
                /\ \A o \in new :
                      /\ o.order_no = ret'.order_no
                      /\ RowOf(o) = k
                      /\ o.quantity = f.quantity
                      /\ o.status = "pending"
                      /\ o.total_price = tickets[k].price * f.quantity]_vars

\* create_order has just returned success for more than one ticket
C1_Witness ==
    /\ Quiet
    /\ ret.op = "create_order" /\ ret.status = "success"
    /\ \E o \in orders :
          /\ o.order_no = ret.order_no
          /\ o.quantity > 1
          /\ tickets[RowOf(o)].remaining_seats = ret.remaining - o.quantity

\* C2: with create_order calls in flight at the same time on one ticket row,
\* remaining_seats never goes below 0 and the quantities of the orders
\* created for the row never add up to more than its initial remaining_seats.
C2_NoOversell ==
    \A k \in DOMAIN tickets :
        /\ tickets[k].remaining_seats >= 0
        /\ SumQuantity({o \in orders : RowOf(o) = k}) <= initialSeats[k]

\* two calls passed the stock check on the same row; one has taken its
\* seats, and the other still asks for more than what is left
C2_Witness ==
    \E c1, c2 \in Callers :
        /\ c1 # c2
        /\ pc[c1] = "co_ins" /\ pc[c2] = "co_dec"
        /\ RowOf(frame[c1]) = RowOf(frame[c2])
        /\ frame[c2].quantity > tickets[RowOf(frame[c2])].remaining_seats

\* C3: when create_order succeeded for a ticket row that had remaining_seats
\* R, and the next call is cancel_order of the order number it returned,
\* whose statements all execute, then that cancel_order returns success, the
\* order's status is cancelled and the row has remaining_seats R again.
C3_CancelAfterCreate ==
    [][\A c \in SeqCallers :
          (/\ CancelEnds(c)
           /\ ret.op = "create_order" /\ ret.status = "success"
           /\ ret.order_no = frame[c].order_no
           /\ ~faulted')
          => /\ ret'.status = "success" /\ ret'.message = "order_cancelled"
             /\ \E o \in orders' : o.order_no = ret.order_no
             /\ \A o \in orders' :
                   o.order_no = ret.order_no
                   => /\ o.status = "cancelled"
                      /\ tickets'[RowOf(o)].remaining_seats = ret.remaining]_vars

\* a cancel_order that came right after the create_order of its order has
\* returned success, without any database fault
C3_Witness ==
    /\ Quiet
    /\ ret.op = "cancel_order" /\ ret.follows_create
    /\ ret.status = "success"
    /\ ~faulted

\* C4: cancel_order of an order whose status is not pending (an already
\* cancelled one in particular) is rejected with "只能取消待支付的订单", and
\* leaves the order rows and remaining_seats as they were.
C4_OnlyPendingCancelled ==
    [][\A c \in SeqCallers :
          (/\ pc[c] = "ca_get" /\ pc'[c] # "ca_get"
           /\ \E o \in orders : o.order_no = frame[c].order_no /\ o.status # "pending"
           /\ ~faulted')
          => /\ pc'[c] = "idle"
             /\ ret'.status = "error" /\ ret'.message = "only_pending"
             /\ orders' = orders
             /\ tickets' = tickets]_vars

\* cancel_order of an already cancelled order has been rejected
C4_Witness ==
    /\ Quiet
    /\ ret.op = "cancel_order" /\ ret.message = "only_pending"
    /\ \E o \in orders : o.order_no = ret.order_no /\ o.status = "cancelled"

\* C5: create_order for a ticket row whose remaining_seats N is less than the
\* quantity returns the error payload "余票不足，当前仅剩 N 张" (it does not
\* raise), inserts no order row and leaves remaining_seats as it was.
C5_InsufficientStock ==
    [][\A c \in SeqCallers :
          LET k == RowOf(frame[c])
          IN (/\ pc[c] = "co_get" /\ pc'[c] # "co_get"
              /\ k \in DOMAIN tickets
              /\ tickets[k].remaining_seats < frame[c].quantity
              /\ ~faulted')
             => /\ pc'[c] = "idle"
                /\ ret'.status = "error" /\ ret'.message = "insufficient_stock"
                /\ ret'.n = tickets[k].remaining_seats
                /\ orders' = orders
                /\ tickets' = tickets]_vars

\* create_order has answered that only N seats are left, N being what the
\* row holds
C5_Witness ==
    /\ Quiet
    /\ ret.op = "create_order" /\ ret.message = "insufficient_stock"
    /\ \E k \in DOMAIN tickets : ret.n = tickets[k].remaining_seats /\ ret.n > 0

\* C6: when the decrement of create_order succeeded and the insert of the
\* order fails, the call returns the error "订单创建失败", no order row
\* exists for it and remaining_seats is what it was before the call.
C6_InsertFailureRestores ==
    [][\A c \in SeqCallers :
          (pc[c] = "co_comp" /\ pc'[c] = "idle")
          => /\ ret'.status = "error" /\ ret'.message = "order_create_failed"
             /\ orders' = begin.orders
             /\ tickets'[RowOf(frame[c])].remaining_seats
                   = begin.seats[RowOf(frame[c])]]_vars

\* C7: every order row is created with status pending, and the only change
\* of an order's status is from pending to cancelled.
C7_StatusTransitions ==
    [][\A o2 \in orders' :
          LET old == {o \in orders : o.order_no = o2.order_no}
          IN IF old = {}
             THEN o2.status = "pending"
             ELSE \A o \in old :
                     \/ o2.status = o.status
                     \/ o.status = "pending" /\ o2.status = "cancelled"]_vars

\* an order was cancelled by cancel_order while another row, not pending,
\* kept its status
C7_Witness ==
    /\ Quiet
    /\ ret.op = "cancel_order" /\ ret.status = "success"
    /\ \E o1, o2 \in orders :
          /\ o1.order_no = ret.order_no /\ o1.status = "cancelled"
          /\ o2.order_no # ret.order_no /\ o2.status \in {"paid", "completed"}

\* C8: when create_order answers with a business-rule error payload, the
\* Order Agent's handle_task returns state failed with the text
\* "❌ 订票失败: <message>", and never state completed with a success text.
C8_BusinessErrorFails ==
    (at = "done" /\ cur.agent = "order" /\ cur.reply.data \in BusinessErrors)
    => resp = ReturnedStatus("failed", Text("booking_failure", cur.reply.data))

\* C9: handle_task of the Weather, Ticket and Order Agents always returns a
\* TaskStatus in state completed, failed or input_required; no exception
\* leaves it.
C9_AlwaysReturnsStatus ==
    at = "done"
    => /\ resp.outcome = "returned"
       /\ resp.state \in {"completed", "failed", "input_required"}

\* C10: for each of the three Agents, a task whose extracted user input is
\* empty ends in state input_required with the Agent's welcome message, and
\* no LLM, peer-Agent or tool call was made.
C10_EmptyInputWelcome ==
    (at = "done" /\ cur.user_input = "")
    => /\ resp = ReturnedStatus("input_required", Text("welcome", cur.agent))
       /\ calls = NoCalls

\* C11: when the intent the Order Agent parsed lacks the contact name or the
\* contact phone, the task ends in state input_required with the fixed prompt
\* asking for name and phone, and neither the Ticket Agent nor the Order Tool
\* Backend was called, whether or not the intent carries a ticket_id.
C11_MissingContactAsksForIt ==
    (/\ at = "done" /\ cur.agent = "order"
     /\ cur.intent.kind = "ready" /\ cur.intent.contact = "incomplete")
    => /\ resp = ReturnedStatus("input_required", Text("need_contact", ""))
       /\ calls.peer = 0 /\ calls.mcp = 0

\* C12: when the Tool Backend reports an error for the Weather Agent's query
\* (the query_weather result is the error envelope, or the tool call itself
\* fails), the Weather Agent's task ends in state failed with the text
\* "查询失败: <message>", never in state completed.
C12_WeatherBackendErrorFails ==
    (/\ at = "done" /\ cur.agent = "weather"
     /\ (cur.reply.status = "error" \/ cur.reply.data = "error_payload"))
    => /\ resp.outcome = "returned" /\ resp.state = "failed"
       /\ resp.text.form = "query_failed"
(* ----------------------------- front ends ------------------------------ *)

\* C13: when intent recognition returned a non-empty follow_up_message or
\* intents containing out_of_scope, the turn ends with that follow-up (the
\* generic greeting when it is empty) as its reply, no Agent is called and
\* no attraction recommendation is generated, whatever the other intents.
C13_FollowUpStopsTurn ==
    (/\ turn.at \in {"dispatch", "await", "done"}
     /\ \/ turn.follow_up # ""
        \/ \E k \in 1..Len(turn.intents) : turn.intents[k] = "out_of_scope")
    => /\ turn.log = <<>>
       /\ turn.responses = <<>>
       /\ turn.at = "done"
       /\ ~turn.raised
       /\ turn.reply = IF turn.follow_up # "" THEN <<turn.follow_up>> ELSE <<"greeting">>
       /\ conversation_history[Len(conversation_history)] = Line("Assistant", turn.reply)

C13_Witness ==
    /\ turn.at = "done"
    /\ turn.intents = <<"weather", "out_of_scope">>
    /\ turn.follow_up = ""
    /\ turn.reply = <<"greeting">>

\* the intents of the turn that get a reply: attraction and those with an Agent
Answered(intent) == intent = "attraction" \/ get_agent_for_intent(intent) # "none"

\* C14: the intents of a turn are handled one at a time in the order they
\* were emitted: the events of the turn come in the order of the intents,
\* the call for an intent starts only after every earlier call has its
\* reply, and the combined reply is the replies of the answered intents in
\* that order with a blank line between two of them.
C14_IntentsInOrder ==
    /\ \A a, b \in 1..Len(turn.log) :
          a < b => /\ turn.log[a].k <= turn.log[b].k
                   /\ turn.log[b].ev = "call" =>
                        /\ turn.log[a].k < turn.log[b].k
                        /\ turn.log[a].ev = "call" =>
                             \E c \in (a + 1)..(b - 1) :
                                turn.log[c] = [ev |-> "reply", k |-> turn.log[a].k]
    /\ \A j \in 1..Len(turn.responses) :
          /\ turn.responses[j].intent = turn.intents[turn.responses[j].k]
          /\ j > 1 => turn.responses[j - 1].k < turn.responses[j].k
    /\ (turn.at = "done" /\ turn.responses # <<>> /\ turn.reply # ErrorReply /\ ~turn.raised)
        => /\ {turn.responses[j].k : j \in 1..Len(turn.responses)}
                = {k \in 1..Len(turn.intents) : Answered(turn.intents[k])}
           /\ Len(turn.reply) = 2 * Len(turn.responses) - 1
           /\ \A j \in 1..Len(turn.responses) :
                 /\ turn.reply[2 * j - 1] = turn.responses[j].text
                 /\ j > 1 => turn.reply[2 * j - 2] = "blank_line"

C14_Witness ==
    /\ turn.at = "done"
    /\ turn.intents = <<"order", "weather">>
    /\ turn.reply = <<"artifact_text", "blank_line", "weather_summary">>
    /\ turn.log = <<[ev |-> "call", k |-> 1], [ev |-> "reply", k |-> 1],
                    [ev |-> "call", k |-> 2], [ev |-> "reply", k |-> 2]>>

\* C15: after a turn of the CLI, whichever path it took, the transcript ends
\* with the user's line followed by one assistant line holding the reply
\* that was returned, its lines alternate User/Assistant, and it agrees
\* with the messages list.
C15_TranscriptFollowsTurn ==
    (ui = "cli" /\ turn.at = "done")
    => LET n == Len(conversation_history)
       IN /\ n >= 2
          /\ conversation_history[n - 1] = Line("User", <<turn.user_input>>)
          /\ conversation_history[n] = Line("Assistant", turn.reply)
          /\ \A k \in 1..n :
                conversation_history[k].role = IF k % 2 = 1 THEN "User" ELSE "Assistant"
          /\ messages = MessagesOf(conversation_history)

(* --------------------------- health check ------------------------------ *)

\* C16: the health-check script exits with code 0 exactly when the database
\* probe succeeded and every service of the fixed list answered HTTP 200,
\* and with code 1 otherwise; every service was probed when it exits,
\* whatever the other probes met.
C16_ExitCodeIffAllHealthy ==
    run_output.at = "exited"
    => /\ run_output.code \in {0, 1}
       /\ run_output.code = 0
            <=> /\ run_output.db = "ok"
                /\ \A name \in ServiceNames : run_output.results[name].response = "200"
       /\ \A name \in ServiceNames : run_output.results[name].response \in Responses
       /\ run_output.db \in DbProbes
       /\ Cardinality(ServiceNames) = 7

C16_Witness ==
    /\ run_output.at = "exited"
    /\ run_output.code = 1
    /\ run_output.db = "ok"
    /\ run_output.results["Weather MCP"].response = "timeout"
    /\ \A name \in ServiceNames \ {"Weather MCP"} : run_output.results[name].response = "200"

(* ----------------------- order numbers, validators --------------------- *)

\* C17: every order number generate_order_no produces is ORD followed by
\* 14 digits and 6 characters of [A-Z0-9], and validate_order_no accepts it.
C17_OrderNoIsValid ==
    run_output.at = "returned"
    => /\ Len(run_output.order_no) = 23
       /\ SubSeq(run_output.order_no, 1, 3) = <<"O", "R", "D">>
       /\ \A k \in 4..17 : run_output.order_no[k] \in Digits
       /\ \A k \in 18..23 : run_output.order_no[k] \in UpperLetters \cup Digits
       /\ run_output.checked = Valid

C17_Witness ==
    /\ run_output.at = "returned"
    /\ run_input.now.month = 1
    /\ run_input.hex = <<"a", "0", "f", "0", "a", "f">>
    /\ run_output.order_no[18] = "A"
    /\ run_output.checked.valid

\* C18: validate_id_card accepts the empty string; it accepts a non-empty
\* string exactly when the string is 17 digits followed by a digit, X or x
\* and its last character, upper-cased, is the check code at index
\* (sum of digit[i] * weight[i]) mod 11; seventeen digits alone are
\* rejected.
C18_IdCardCheckCode ==
    run_output.at = "returned"
    => LET s == run_input
       IN /\ s = <<>> => run_output.checked.valid
          /\ s # <<>> =>
               (run_output.checked.valid
                <=> /\ Len(s) = 18
                    /\ \A k \in 1..17 : s[k] \in Digits
                    /\ s[18] \in Digits \cup {"X", "x"}
                    /\ (IF s[18] = "x" THEN "X" ELSE s[18])
                         = check_codes[(WeightedSum(s, 17) % 11) + 1])
          /\ (Len(s) = 17 /\ \A k \in 1..17 : s[k] \in Digits)
               => ~run_output.checked.valid

C18_Witness ==
    /\ run_output.at = "returned"
    /\ run_input = <<"1", "1", "0", "1", "0", "5", "1", "9", "4", "9", "1", "2",
                     "3", "1", "0", "0", "2", "x">>
    /\ run_output.checked = Valid

\* the request is rejected when its seat type is not empty and is none of
\* 二等座, 一等座, 商务座
SeatTypeRejected ==
    (run_input.seat_type \notin {"None", "", "second_class", "first_class", "business"})
    => ~run_output.checked.valid

\* the request is accepted when it has two different non-empty cities, a
\* date not earlier than today, a seat type that is empty or supported, a
\* valid name and a valid phone
GoodBookingAccepted ==
    (/\ run_input.departure_city # "" /\ run_input.arrival_city # ""
     /\ run_input.departure_city # run_input.arrival_city
     /\ run_input.date.text = "date" /\ run_input.date.days_after_today >= 0
     /\ run_input.seat_type \in {"None", "", "second_class", "first_class", "business"}
     /\ validate_name(run_input.contact_name).valid
     /\ validate_phone(run_input.contact_phone).valid)
    => run_output.checked = Valid

\* C19 as stated: validate_train_booking rejects every request whose
\* departure city equals its arrival city with a message containing
\* "不能相同", rejects every request whose non-empty seat type is not a
\* supported one, and accepts a good request.
C19_SameCityRejected ==
    run_output.at = "returned"
    => /\ (run_input.departure_city = run_input.arrival_city)
            => /\ ~run_output.checked.valid
               /\ run_output.checked.message \in SaysMustDiffer
       /\ SeatTypeRejected
       /\ GoodBookingAccepted

\* C19, amended: a request whose departure and arrival city are the same
\* non-empty city is rejected with a message containing "不能相同"; a
\* request without one of the cities is rejected with the message that
\* asks for the cities; the seat type and the good request as stated.
C19_SameNamedCityRejected ==
    run_output.at = "returned"
    => /\ (run_input.departure_city = run_input.arrival_city
            /\ run_input.departure_city # "")
            => /\ ~run_output.checked.valid
               /\ run_output.checked.message \in SaysMustDiffer
       /\ (run_input.departure_city = "" \/ run_input.arrival_city = "")
            => run_output.checked = Invalid("cities_missing")
       /\ SeatTypeRejected
       /\ GoodBookingAccepted

C19_Witness ==
    /\ run_output.at = "returned"
    /\ run_input.departure_city = "Beijing"
    /\ run_input.arrival_city = "Beijing"
    /\ run_input.seat_type = "second_class"
    /\ run_input.date.days_after_today = 1
    /\ run_output.checked = Invalid("cities_must_differ")

(* ---------------------------- execute_query ---------------------------- *)

\* C20: execute_query never raises: whatever the statement and the state of
\* the database, a dropped connection included, it returns an envelope
\* whose status is success with the rows when rows were returned, no_data
\* when the result is empty, and error with the driver's message when the
\* database reported an error.
C20_ExecuteQueryNeverRaises ==
    /\ run_output.at # "raised"
    /\ run_output.at = "returned"
        => /\ run_output.envelope.status \in {"success", "no_data", "error"}
           /\ run_output.envelope.status = "success"
                <=> (run_output.result.error = "" /\ run_output.result.rows # <<>>)
           /\ run_output.envelope.status = "no_data"
                <=> (run_output.result.error = "" /\ run_output.result.rows = <<>>)
           /\ run_output.envelope.status = "error"
                => run_output.envelope.message = run_output.result.error
           /\ run_output.envelope.status = "success"
                => Len(run_output.envelope.data) = Len(run_output.result.rows)

(* ------------------------------ logging -------------------------------- *)

PeerAnswered == cur.agent = "order" /\ cur.peer.status \notin {"none", "error"} /\ cur.peer.content.kind = "text"

\* C22: in the peer-query path of the Order Agent, one extracted ticket id
\* gives one create_order for that id with the intent's ticket type,
\* quantity and contact; several ids end the task in input_required asking
\* the user to pick, without create_order; no id ends it in input_required
\* echoing the results, without create_order.
C22_BookOnlySingleId ==
    (at = "done" /\ PeerAnswered /\ ~cur.peer.content.apology)
    => LET ids == cur.peer.content.ids
       IN /\ Len(ids) = 1
               => /\ calls.mcp = 1
                  /\ cur.order_data.ticket_id = ids[1]
                  /\ cur.order_data.ticket_type
                       = (IF cur.intent.ticket_type = "" THEN "train" ELSE cur.intent.ticket_type)
                  /\ cur.order_data.quantity
                       = (IF cur.intent.quantity = 0 THEN 1 ELSE cur.intent.quantity)
                  /\ cur.order_data.contact = cur.intent.contact
          /\ Len(ids) > 1
               => /\ resp = ReturnedStatus("input_required", Text("choose_ticket_id", ""))
                  /\ calls.mcp = 0
          /\ Len(ids) = 0
               => /\ resp = ReturnedStatus("input_required", Text("ask_ticket_id", ""))
                  /\ calls.mcp = 0

\* C23: when the Ticket Agent's text contains "未找到" or "没有" the task ends
\* in input_required with the apology and the suggestions and no
\* create_order is issued, also when the text holds ticket ids.
C23_ApologyComesFirst ==
    (at = "done" /\ PeerAnswered /\ cur.peer.content.apology)
    => /\ resp = ReturnedStatus("input_required", Text("no_tickets", ""))
       /\ calls.mcp = 0

\* C29: a task of the Order Agent invokes create_order at most once, and
\* a task that ends in input_required has not invoked it.
C29_CreateOrderAtMostOnce ==
    cur.agent = "order"
    => /\ calls.mcp <= 1
       /\ (at = "done" /\ resp.outcome = "returned" /\ resp.state = "input_required")
            => calls.mcp = 0
       /\ (at = "respond" /\ cur.kind = "input_required") => calls.mcp = 0

C29_Witness ==
    /\ at = "done"
    /\ cur.agent = "order"
    /\ calls.mcp = 1
    /\ calls.peer = 1
    /\ cur.reply.status = "error"
    /\ resp.outcome = "returned"
    /\ resp.state = "failed"

\* C30: a reply of the Ticket Agent in state failed or input_required never
\* leads to a create_order call, whatever its text contains.
C30_BookOnlyCompletedReply ==
    (cur.agent = "order" /\ cur.peer.status \in {"failed", "input_required"})
    => calls.mcp = 0

\* C24: in a turn of a front end the reply of the Order Agent is shown as
\* it was received, without a summarization call; every reply of the
\* Weather or the Ticket Agent is passed through the summary template of
\* that Agent, and is shown as received when the summarization fails.
C24_OrderReplyVerbatim ==
    \A j \in 1..Len(turn.responses) :
       LET r == turn.responses[j]
       IN /\ r.intent = "order"
               => r.text = r.raw /\ r.template = "none" /\ ~r.summarized
          /\ r.intent = "weather" => r.template = "weather_summary"
          /\ r.intent = "train" => r.template = "ticket_summary"
          /\ r.intent \in {"weather", "train"}
               => /\ r.summarized => r.text = r.template
                  /\ ~r.summarized => r.text = r.raw
          /\ (turn.at = "done" /\ ~turn.raised /\ turn.reply # ErrorReply)
               => turn.reply[2 * j - 1] = r.text

C24_Witness ==
    /\ turn.at = "done"
    /\ turn.intents = <<"order", "train">>
    /\ Len(turn.responses) = 2
    /\ turn.responses[1].raw = "status_text"
    /\ turn.responses[2].summarized
    /\ turn.reply = <<"status_text", "blank_line", "ticket_summary">>

\* the age of the watermark of the city in hand, in minutes
WatermarkAge == run_input.now - InstantOfWall(run_output.cur.latest_time.wall)

\* C25: in a pass that is not forced a city is refreshed exactly when it
\* has no watermark or its watermark is at least 24 hours old, in a forced
\* pass every city is refreshed, and no failed fetch ends the pass before
\* the cities after it are handled.
C25_RefreshIffStale ==
    (run_input \in [force_update : BOOLEAN, now : Nat] /\ run_output.cur.city # "") =>
        /\ run_output.cur.update <=>
             \/ run_input.force_update
             \/ ~run_output.cur.latest_time.known
             \/ WatermarkAge >= 24 * 60
        /\ run_output.at # "raised"

\* the quantity of order 1
QuantityOfOrder1 == (CHOOSE o \in orders : o.order_no = 1).quantity

\* a cancel_order call answers success in this step
CancelSucceeds ==
    /\ \E c \in Callers : pc[c] = "ca_restore" /\ pc'[c] = "idle"
    /\ ret'.op = "cancel_order"
    /\ ret'.status = "success"

\* C26: of two cancel_order calls in flight at the same time for one pending
\* order, no statement hitting a database fault, at most one answers
\* success, and once the calls have returned remaining_seats stands one
\* quantity of the order above where it started.
C26_ConcurrentCancelOnce ==
    [][/\ (CancelSucceeds /\ ~faulted') => ret.status # "success"
       /\ (Quiet' /\ ret' # NoCall /\ ~faulted') =>
             \A k \in TicketRows :
                tickets'[k].remaining_seats = initialSeats[k] + QuantityOfOrder1]_vars

RECURSIVE SumOfQuantities(_)
\* the quantities of a set of order rows, added up
SumOfQuantities(rows) ==
    IF rows = {} THEN 0
    ELSE LET o == CHOOSE r \in rows : TRUE
         IN o.quantity + SumOfQuantities(rows \ {o})

\* the pending orders of the ticket row k
PendingOrdersOf(k) ==
    {o \in orders : o.status = "pending" /\ <<table_map(o.ticket_type), o.ticket_id>> = k}

\* total_seats of a ticket row: no row starts with more seats left
TotalSeatsOf(k) == MaxSeats

\* C27: after any sequence of create_order and cancel_order calls run one
\* at a time, whether their statements take effect or fail, every ticket has
\* remaining_seats plus the quantities of its pending orders equal to the
\* remaining_seats it started with, and 0 <= remaining_seats <= total_seats.
C27_SeatsConserved ==
    Quiet => \A k \in TicketRows :
        /\ tickets[k].remaining_seats + SumOfQuantities(PendingOrdersOf(k)) = initialSeats[k]
        /\ tickets[k].remaining_seats >= 0
        /\ tickets[k].remaining_seats <= TotalSeatsOf(k)

\* the create_order call of caller c returns in this step
CreateOrderReturns(c) ==
    /\ frame[c].op = "create_order"
    /\ pc[c] # "idle"
    /\ pc'[c] = "idle"

\* C28: a create_order call leaves no ticket with more remaining_seats than
\* it had when the call began, the orders table never holds a row with a
\* quantity of zero or less or a negative total_price, and a call with a
\* quantity of zero or less adds no order and leaves remaining_seats as
\* they were.
C28_NoNonPositiveQuantity ==
    [][\A c \in SeqCallers : CreateOrderReturns(c) =>
          /\ \A k \in TicketRows : tickets'[k].remaining_seats <= begin.seats[k]
          /\ \A o \in orders' : o.quantity > 0 /\ o.total_price >= 0
          /\ frame[c].quantity <= 0 =>
                /\ orders' = begin.orders
                /\ Seats(tickets') = begin.seats]_vars

====
